---- MODULE Spec2Model ----
(***************************************************************************)
(* A model of the renderer's resource orchestration: the mip level count   *)
(* and the two mip generators (resources.rs, main.rs, compute.rs), the     *)
(* bind group builders (application/bind_group.rs) and the acquisition of  *)
(* the surface image in the frame loop (application/wgpu_context.rs,       *)
(* application.rs), the graphics context's construction and resize         *)
(* (application/wgpu_context.rs) and the data buffers                      *)
(* (application/buffer.rs).                                                *)
(***************************************************************************)
EXTENDS Integers, Sequences, FiniteSets, TLC

VARIABLES
    \* ---- load_texture's level count (resources.rs 29-41, main.rs 394-405)
    size_in,                \* <<image.width(), image.height()>>
    mip_level_count,        \* the count put in the texture descriptor
    \* ---- mip generation (write_mipmaps, generate_mipmaps)
    image,                  \* the opened image: [width, height, kind]
    texture,                \* the created texture: [width, height, mip_level_count]
    mpc,                    \* position in load_texture / write_mipmaps / generate_mipmaps
    level,                  \* the running `level` of the current for loop
    mip_level_size,         \* write_mipmaps: mip_level_size
    previous_level_pixels,  \* write_mipmaps: previous_level_pixels
    writes,                 \* queue.write_texture calls, in call order
    mip_sizes,              \* generate_mipmaps: mip_sizes
    mip_views,              \* generate_mipmaps: mip_views
    bind_groups,            \* generate_mipmaps: bind_groups
    dispatches,             \* set_bind_group + dispatch_workgroups, in record order
    submitted,              \* queue.submit of the compute pass happened
    \* ---- BindGroup::new and BindGroup::new_compute (bind_group.rs)
    bg_fn,                  \* the constructor called: "new" or "new_compute"
    uniform_buffers,        \* new: uniform_buffers (buffer handles)
    textures,               \* new: textures (Texture handles)
    input_buffers,          \* new_compute: input_buffers
    output_buffers,         \* new_compute: output_buffers
    bpc,                    \* position in the constructor
    bg_done,                \* iterations of the current pair of for loops done
    binding,                \* the running `binding`
    layout_entries,         \* layout_entries
    bind_group_layout,      \* the entries device.create_bind_group_layout got
    bind_group_entries,     \* bind_group_entries
    bind_group,             \* the entries device.create_bind_group got
    \* ---- the frame loop (application.rs, application/wgpu_context.rs)
    fpc,                    \* position in the event loop / update / render
    config,                 \* the stored surface configuration: [width, height]
    surface_config,         \* the configuration last passed to surface.configure
    depth_texture,          \* size of the depth texture: [width, height]
    uniforms,               \* host uniforms: [time, projection]
    uniform_buffer,         \* device contents of the uniform buffer
    output,                 \* the acquired surface image (0: none)
    frames,                 \* frames presented so far
    acquire_log,            \* surface calls of the current acquisition, in order
    frame_log,              \* the steps of the current frame tick, in order
    last_event,             \* the event handled last: "none", "Resized", "AboutToWait"
    new_size,               \* the new_size of the last Resized event
    pre_resize,             \* config, depth size and projection before that event
    repeated,               \* that event repeated the event just before it
    vertices,               \* vertices.len(): the number of loaded vertices
    commands,               \* the commands recorded in this tick's encoder
    \* ---- WgpuContext (application/wgpu_context.rs)
    cpc,                    \* "start", "ready" or "panic"
    formats,                \* surface_caps.formats
    window_size,            \* window.inner_size(): <<width, height>>
    context_config,         \* WgpuContext::config: [format, width, height]
    context_surface,        \* the configuration last passed to surface.configure
    context_last,           \* the last call: its arguments, the config before it
                            \* and the surface calls it made
    \* ---- DataBuffer and UninitBuffer (application/buffer.rs)
    dpc,                    \* "start", "uninit", "live" or "panic"
    align,                  \* mem::align_of::<T>() of the data type in use
    ctor,                   \* the constructor called last
    data,                   \* DataBuffer::data, as a sequence of 32-bit words
    device_buffer,          \* the wgpu::Buffer: [contents: bytes] once created
    buffer_writes,          \* queue.write_buffer calls made
    updates,                \* DataBuffer::update calls made
    uploaded,               \* `data` as it was when last handed to the device
    \* ---- save_texture (resources.rs 80-159)
    spc,                    \* position in save_texture
    save_source,            \* the texture: [width, height]
    save_level,             \* the mip_level argument
    copy_layout,            \* the copy recorded: [width, height, bytes_per_row]
    map_state,              \* "unrequested", "pending", "Ok" or "Err"
    pixel_buffer,           \* texels of the read-back buffer, 4 bytes a slot
    mapped_pixels,          \* the mapped range as read by the host
    saved,                  \* the image handed to save: rows of texels
    \* ---- EguiRenderer::draw (gui.rs 147-195)
    gpc,                    \* position in draw
    textures_delta,         \* full_output.textures_delta: [set, free], lists of ids
    gui_index,              \* elements of the current for loop done
    gui_log,                \* the calls draw made, in order: [op, id]
    \* ---- load_geometry (resources.rs 281-356)
    lpc,                    \* position in load_geometry
    models,                 \* the models tobj::load_obj returned
    model_index,            \* models of the for loop done
    loaded_vertices,        \* `vertices`
    indices,                \* `indices`
    index_model             \* for each index, the model it came from

contextVars == <<cpc, formats, window_size, context_config, context_surface,
                 context_last>>
bufferVars == <<dpc, align, ctor, data, device_buffer, buffer_writes, updates,
                uploaded>>
saveVars == <<spc, save_source, save_level, copy_layout, map_state, pixel_buffer,
              mapped_pixels, saved>>
guiVars == <<gpc, textures_delta, gui_index, gui_log>>
geometryVars == <<lpc, models, model_index, loaded_vertices, indices, index_model>>
countVars == <<size_in, mip_level_count>>
mipVars == <<image, texture, mpc, level, mip_level_size, previous_level_pixels,
             writes, mip_sizes, mip_views, bind_groups, dispatches, submitted>>
bgVars == <<bg_fn, uniform_buffers, textures, input_buffers, output_buffers, bpc,
            bg_done, binding, layout_entries, bind_group_layout,
            bind_group_entries, bind_group>>
frameVars == <<fpc, config, surface_config, depth_texture, uniforms, uniform_buffer,
               output, frames, acquire_log, frame_log, last_event, new_size,
               pre_resize, repeated, vertices, commands>>

\* ------------------------------------------------------------------ bounds

\* Largest width and height of an image whose pixels are modelled.
MaxDim == 4
\* Largest width and height for which the level count alone is computed.
MaxSide == 40

\* Longest list of buffers or textures handed to a bind group constructor,
\* and the number of distinct buffer and texture handles.
MaxInputs == 2

\* Largest width and height of the window.
MaxSize == 2
\* Frames rendered before the model stops starting new ones.
MaxFrames == 2

\* ------------------------------------------------------ machine arithmetic

U8Modulus == 2^8

\* u32 addition. The operands here are bytes widened by u32::from and small
\* sizes, so that no sum reaches 2^32 and the addition never wraps.
AddU32(a, b) == a + b
\* `x as u8`
AsU8(x) == x % U8Modulus
\* u32::max
MaxU32(a, b) == IF a >= b THEN a ELSE b

\* u32::ilog2 (x >= 1): the position of the highest set bit
RECURSIVE ilog2(_)
ilog2(x) == IF x < 2 THEN 0 ELSE 1 + ilog2(x \div 2)

bit_width_no_plus_one(x) == IF x = 0 THEN 0 ELSE ilog2(x)
bit_width(x) == IF x = 0 THEN 0 ELSE 1 + ilog2(x)

get_max_mip_level_count(width, height) == bit_width(MaxU32(width, height))

\* ------------------------------------------------------------- the images

ImageKinds == {"blocks", "coords", "samples"}
\* The small images, and one of 16 x 9 whose levels need different numbers
\* of 8 x 8 workgroups.
Images == [width : 1..MaxDim, height : 1..MaxDim, kind : ImageKinds]
              \cup {[width |-> 16, height |-> 9, kind |-> "blocks"]}

BlockColours == << <<200, 0, 0, 255>>, <<0, 200, 0, 255>>,
                   <<0, 0, 200, 255>>, <<200, 200, 0, 255>> >>
SampleColours == << <<10, 1, 255, 255>>, <<20, 1, 255, 254>>,
                    <<30, 1, 255, 253>>, <<40, 2, 255, 255>> >>

\* The RGBA pixel of an image at column x, row y.
\*  blocks : every aligned 2x2 block has one colour (a 4x4 image has four
\*           uniformly coloured quadrants);
\*  coords : every pixel has its own colour, made of its coordinates;
\*  samples: every aligned 2x2 block holds the four sample pixels.
ImagePixel(img, x, y) ==
    CASE img.kind = "blocks" ->
            BlockColours[1 + ((x \div 2) % 2) + 2 * ((y \div 2) % 2)]
      [] img.kind = "coords" ->
            <<16 * x, 16 * y, 1 + x + img.width * y, 255>>
      [] img.kind = "samples" ->
            SampleColours[1 + (x % 2) + 2 * (y % 2)]

\* image.into_rgba8().into_raw(): RGBA8, row-major, 4 * width bytes a row.
IntoRaw(img) ==
    [k \in 1..(4 * img.width * img.height) |->
        LET p == (k - 1) \div 4
            c == (k - 1) % 4
        IN ImagePixel(img, p % img.width, p \div img.width)[c + 1]]

\* ------------------------------------------------------- write_mipmaps

HalfCeil(n) == (n + 1) \div 2
\* `mip_level_size.width /= 2`, `previous_size.width / 2`
Half(n) == n \div 2

HalveSize(size) == [width |-> Half(size.width), height |-> Half(size.height)]

\* The byte offsets of the four source pixels, for loop variables i and j.
I00(width, i, j) == 4 * ((2 * width) * (2 * j) + (2 * i))
I01(width, i, j) == 4 * ((2 * width) * (2 * j) + ((2 * i) + 1))
I10(width, i, j) == 4 * ((2 * width) * ((2 * j) + 1) + (2 * i))
I11NextRow(width, i, j) == 4 * ((2 * width) * ((2 * j) + 2) + ((2 * i) + 1))
I11(width, i, j) == 4 * ((2 * width) * ((2 * j) + 1) + ((2 * i) + 1))

\* `&previous_level_pixels[i..(i + 4)]` panics unless i + 4 <= len.
SliceInRange(pixels, i) == i + 4 <= Len(pixels)

\* (u32::from(a) + u32::from(b) + u32::from(c) + u32::from(d)) / 4, `as u8`
AverageWrappingU8(a, b, c, d) == AsU8(AsU8(AsU8(a + b) + c) + d) \div 4
Average(a, b, c, d) == AsU8(AddU32(AddU32(AddU32(a, b), c), d) \div 4)

\* The pixel pushed for loop variables i (0..width) and j (0..height).
MipPixel(prev, width, i, j) ==
    [c \in 1..4 |->
        Average(prev[I00(width, i, j) + c], prev[I01(width, i, j) + c],
                prev[I10(width, i, j) + c], prev[I11(width, i, j) + c])]

\* The loops `for i in 0..width { for j in 0..height { pixels.extend(..) } }`:
\* the n-th pixel pushed is the one of i = n / height, j = n % height.
MipLevelPixels(prev, size) ==
    [k \in 1..(4 * size.width * size.height) |->
        LET n == (k - 1) \div 4
            c == (k - 1) % 4
        IN MipPixel(prev, size.width, n \div size.height, n % size.height)[c + 1]]

\* No slice of the loops is out of range.
MipLevelInRange(prev, size) ==
    \A i \in 0..(size.width - 1), j \in 0..(size.height - 1) :
        /\ SliceInRange(prev, I00(size.width, i, j))
        /\ SliceInRange(prev, I01(size.width, i, j))
        /\ SliceInRange(prev, I10(size.width, i, j))
        /\ SliceInRange(prev, I11(size.width, i, j))

WriteTextureLevelZero(lvl, pixels, size) ==
    [mip_level |-> 0, bytes_per_row |-> 4 * size.width,
     rows_per_image |-> size.height, width |-> size.width,
     height |-> size.height, data |-> pixels]
\* queue.write_texture(destination, &pixels, source, size)
WriteTexture(lvl, pixels, size) ==
    [mip_level |-> lvl, bytes_per_row |-> 4 * size.width,
     rows_per_image |-> size.height, width |-> size.width,
     height |-> size.height, data |-> pixels]

NoTexture == [width |-> 0, height |-> 0, mip_level_count |-> 0]
NoSize == [width |-> 0, height |-> 0]

MipInit ==
    /\ image \in Images
    /\ texture = NoTexture
    /\ mpc = "opened"
    /\ level = 0
    /\ mip_level_size = NoSize
    /\ previous_level_pixels = <<>>
    /\ writes = <<>>
    /\ mip_sizes = <<>>
    /\ mip_views = <<>>
    /\ bind_groups = <<>>
    /\ dispatches = <<>>
    /\ submitted = FALSE

MipIdle ==
    /\ image = [width |-> 1, height |-> 1, kind |-> "blocks"]
    /\ texture = NoTexture
    /\ mpc = "idle"
    /\ level = 0
    /\ mip_level_size = NoSize
    /\ previous_level_pixels = <<>>
    /\ writes = <<>>
    /\ mip_sizes = <<>>
    /\ mip_views = <<>>
    /\ bind_groups = <<>>
    /\ dispatches = <<>>
    /\ submitted = FALSE

\* main.rs load_texture: the texture is created and write_mipmaps is entered.
MainLoadTexture ==
    /\ mpc = "opened"
    /\ texture' = [width |-> image.width, height |-> image.height,
                   mip_level_count |-> bit_width(MaxU32(image.width, image.height))]
    /\ mip_level_size' = [width |-> image.width, height |-> image.height]
    /\ previous_level_pixels' = <<>>
    /\ level' = 0
    /\ mpc' = "write_mipmaps"
    /\ UNCHANGED <<image, writes, mip_sizes, mip_views, bind_groups, dispatches,
                   submitted>>

\* One iteration of `for level in 0..texture.mip_level_count()`.
WriteMipmapsLevel ==
    /\ mpc = "write_mipmaps"
    /\ level < texture.mip_level_count
    /\ IF level > 0 /\ ~MipLevelInRange(previous_level_pixels, mip_level_size)
       THEN /\ mpc' = "panic"
            /\ UNCHANGED <<level, mip_level_size, previous_level_pixels, writes>>
       ELSE LET pixels == IF level = 0
                          THEN IntoRaw(image)
                          ELSE MipLevelPixels(previous_level_pixels, mip_level_size)
            IN /\ writes' = Append(writes, WriteTexture(level, pixels, mip_level_size))
               /\ mip_level_size' = HalveSize(mip_level_size)
               /\ previous_level_pixels' = pixels
               /\ level' = level + 1
               /\ mpc' = mpc
    /\ UNCHANGED <<image, texture, mip_sizes, mip_views, bind_groups, dispatches,
                   submitted>>

\* The loop of write_mipmaps is over and the function returns.
WriteMipmapsReturn ==
    /\ mpc = "write_mipmaps"
    /\ level >= texture.mip_level_count
    /\ mpc' = "done"
    /\ UNCHANGED <<image, texture, level, mip_level_size, previous_level_pixels,
                   writes, mip_sizes, mip_views, bind_groups, dispatches, submitted>>

\* ------------------------------------- load_texture + generate_mipmaps

\* resources.rs load_texture, called by Texture::new: the texture is created,
\* mip level 0 is written, and generate_mipmaps is entered (compute.rs 8-10).
LoadTexture ==
    /\ mpc = "opened"
    /\ texture' = [width |-> image.width, height |-> image.height,
                   mip_level_count |->
                       get_max_mip_level_count(image.width, image.height)]
    /\ writes' = Append(writes, WriteTexture(0, IntoRaw(image),
                        [width |-> image.width, height |-> image.height]))
    /\ mip_sizes' = << [width |-> image.width, height |-> image.height] >>
    /\ mip_views' = <<>>
    /\ level' = 0
    /\ mpc' = "mip_views"
    /\ UNCHANGED <<image, mip_level_size, previous_level_pixels, bind_groups,
                   dispatches, submitted>>

\* One iteration of `for level in 0..mip_level_count` (compute.rs 11-30).
CreateMipView ==
    /\ mpc = "mip_views"
    /\ level < texture.mip_level_count
    /\ mip_views' = Append(mip_views, [base_mip_level |-> level, mip_level_count |-> 1])
    /\ mip_sizes' = IF level > 0
                    THEN Append(mip_sizes, HalveSize(mip_sizes[(level - 1) + 1]))
                    ELSE mip_sizes
    /\ level' = level + 1
    /\ UNCHANGED <<image, texture, mpc, mip_level_size, previous_level_pixels,
                   writes, bind_groups, dispatches, submitted>>

\* The loop ends; the layout is created; the bind group loop starts at 1.
CreateMipLayout ==
    /\ mpc = "mip_views"
    /\ level >= texture.mip_level_count
    /\ level' = 1
    /\ mpc' = "bind_groups"
    /\ UNCHANGED <<image, texture, mip_level_size, previous_level_pixels, writes,
                   mip_sizes, mip_views, bind_groups, dispatches, submitted>>

\* The layout of compute.rs 32-56: a sampled texture at binding 0, a
\* write-only storage texture at binding 1.
MipBindGroupLayout ==
    << [binding |-> 0, ty |-> "Texture", access |-> "Sampled"],
       [binding |-> 1, ty |-> "StorageTexture", access |-> "WriteOnly"] >>

MipBindGroupSameView(views, lvl) ==
    [binding0 |-> views[lvl + 1], binding1 |-> views[lvl + 1]]
\* The entries of the bind group of `level`: mip_views[level - 1] at binding 0,
\* mip_views[level] at binding 1 (the sequences of the model start at 1).
MipBindGroup(views, lvl) ==
    [binding0 |-> views[(lvl - 1) + 1], binding1 |-> views[lvl + 1]]

\* One iteration of `for level in 1..mip_level_count` (compute.rs 60-75).
CreateMipBindGroup ==
    /\ mpc = "bind_groups"
    /\ level < texture.mip_level_count
    /\ bind_groups' = Append(bind_groups, MipBindGroup(mip_views, level))
    /\ level' = level + 1
    /\ UNCHANGED <<image, texture, mpc, mip_level_size, previous_level_pixels,
                   writes, mip_sizes, mip_views, dispatches, submitted>>

\* Pipeline, encoder and compute pass are created (compute.rs 77-98).
BeginComputePass ==
    /\ mpc = "bind_groups"
    /\ level >= texture.mip_level_count
    /\ level' = 1
    /\ mpc' = "compute_pass"
    /\ UNCHANGED <<image, texture, mip_level_size, previous_level_pixels, writes,
                   mip_sizes, mip_views, bind_groups, dispatches, submitted>>

workgroup_size_per_dim == 8

\* (invocation_count + workgroup_size_per_dim - 1) / workgroup_size_per_dim
WorkgroupCount(invocation_count) ==
    AddU32(invocation_count, workgroup_size_per_dim - 1) \div workgroup_size_per_dim

\* One iteration of `for level in 1..mip_level_count` (compute.rs 100-112).
DispatchMipLevel ==
    /\ mpc = "compute_pass"
    /\ level < texture.mip_level_count
    /\ dispatches' = Append(dispatches,
                            [bind_group |-> bind_groups[(level - 1) + 1],
                             workgroup_count_x |-> WorkgroupCount(texture.width),
                             workgroup_count_y |-> WorkgroupCount(texture.height),
                             workgroup_count_z |-> 1])
    /\ level' = level + 1
    /\ UNCHANGED <<image, texture, mpc, mip_level_size, previous_level_pixels,
                   writes, mip_sizes, mip_views, bind_groups, submitted>>

\* The pass is dropped, the encoder finished and the command submitted.
SubmitMipCommands ==
    /\ mpc = "compute_pass"
    /\ level >= texture.mip_level_count
    /\ submitted' = TRUE
    /\ mpc' = "done"
    /\ UNCHANGED <<image, texture, level, mip_level_size, previous_level_pixels,
                   writes, mip_sizes, mip_views, bind_groups, dispatches>>

\* --------------------------------------------- the level count alone

\* The sides tried: the small ones and the power of two of the documented example.
Sides == (1..MaxSide) \cup {256}

CountInit ==
    /\ size_in \in Sides \X Sides
    /\ mip_level_count = -1

CountIdle ==
    /\ size_in = <<1, 1>>
    /\ mip_level_count = -1

\* resources.rs load_texture, line 32
LoadTextureLevelCount ==
    /\ mip_level_count = -1
    /\ mip_level_count' = get_max_mip_level_count(size_in[1], size_in[2])
    /\ UNCHANGED size_in

\* main.rs load_texture, line 397
MainLoadTextureLevelCount ==
    /\ mip_level_count = -1
    /\ mip_level_count' = bit_width(MaxU32(size_in[1], size_in[2]))
    /\ UNCHANGED size_in

\* ------------------------------------------------------------ BindGroup

RECURSIVE SeqsUpTo(_, _)
\* The sequences over S of length at most n.
SeqsUpTo(S, n) ==
    IF n = 0 THEN {<<>>}
    ELSE LET shorter == SeqsUpTo(S, n - 1)
         IN shorter \cup {Append(q, x) : q \in shorter, x \in S}

Handles == 1..MaxInputs
InputLists == SeqsUpTo(Handles, MaxInputs)

NotCreated == <<"not created">>

\* wgpu::BindingResource of an entry
BufferResource(buffer) == [kind |-> "Buffer", handle |-> buffer, offset |-> 0]
TextureViewResource(tex) == [kind |-> "TextureView", handle |-> tex, offset |-> 0]
SamplerResource(tex) == [kind |-> "Sampler", handle |-> tex, offset |-> 0]

\* new_compute, first loop: the layout entry of an input buffer
ComputeInputLayoutEntry(b) ==
    [binding |-> b, visibility |-> "COMPUTE", ty |-> "Buffer:Storage{read_only:true}"]

\* new_compute, second loop: the layout entry of an output buffer
ComputeOutputLayoutEntryReadOnly(b) ==
    [binding |-> b, visibility |-> "COMPUTE", ty |-> "Buffer:Storage{read_only:true}"]
ComputeOutputLayoutEntry(b) ==
    [binding |-> b, visibility |-> "COMPUTE", ty |-> "Buffer:Storage{read_only:false}"]

\* new, first loop: the layout entry of a uniform buffer
UniformLayoutEntry(b) ==
    [binding |-> b, visibility |-> "VERTEX_FRAGMENT", ty |-> "Buffer:Uniform"]

\* new, second loop: the two layout entries of a texture
TextureLayoutEntriesSameSlot(b) ==
    << [binding |-> b, visibility |-> "FRAGMENT", ty |-> "Texture"],
       [binding |-> b, visibility |-> "FRAGMENT", ty |-> "Sampler:Filtering"] >>
TextureLayoutEntries(b) ==
    << [binding |-> b, visibility |-> "FRAGMENT", ty |-> "Texture"],
       [binding |-> b + 1, visibility |-> "FRAGMENT", ty |-> "Sampler:Filtering"] >>

\* the bind group entry of a buffer (all four buffer loops)
BufferBindGroupEntry(b, buffer) == [binding |-> b, resource |-> BufferResource(buffer)]

\* new, fourth loop: the two bind group entries of a texture
TextureBindGroupEntriesSwapped(b, tex) ==
    << [binding |-> b, resource |-> SamplerResource(tex)],
       [binding |-> b + 1, resource |-> TextureViewResource(tex)] >>
TextureBindGroupEntries(b, tex) ==
    << [binding |-> b, resource |-> TextureViewResource(tex)],
       [binding |-> b + 1, resource |-> SamplerResource(tex)] >>

BindInit ==
    /\ bg_fn \in {"new", "new_compute"}
    /\ IF bg_fn = "new"
       THEN /\ uniform_buffers \in InputLists
            /\ textures \in InputLists
            /\ input_buffers = <<>>
            /\ output_buffers = <<>>
       ELSE /\ uniform_buffers = <<>>
            /\ textures = <<>>
            /\ input_buffers \in InputLists
            /\ output_buffers \in InputLists
    /\ bpc = "layout"
    /\ bg_done = 0
    /\ binding = 0
    /\ layout_entries = <<>>
    /\ bind_group_layout = NotCreated
    /\ bind_group_entries = <<>>
    /\ bind_group = NotCreated

BindIdle ==
    /\ bg_fn = "none"
    /\ uniform_buffers = <<>>
    /\ textures = <<>>
    /\ input_buffers = <<>>
    /\ output_buffers = <<>>
    /\ bpc = "idle"
    /\ bg_done = 0
    /\ binding = 0
    /\ layout_entries = <<>>
    /\ bind_group_layout = NotCreated
    /\ bind_group_entries = <<>>
    /\ bind_group = NotCreated

bgInputs == <<bg_fn, uniform_buffers, textures, input_buffers, output_buffers>>

\* new_compute: one iteration of `for _ in input_buffers` (16-28)
ComputeLayoutInput ==
    /\ bg_fn = "new_compute" /\ bpc = "layout"
    /\ bg_done < Len(input_buffers)
    /\ layout_entries' = Append(layout_entries, ComputeInputLayoutEntry(binding))
    /\ binding' = binding + 1
    /\ bg_done' = bg_done + 1
    /\ UNCHANGED <<bgInputs, bpc, bind_group_layout, bind_group_entries, bind_group>>

\* new_compute: one iteration of `for _ in output_buffers` (30-42)
ComputeLayoutOutput ==
    /\ bg_fn = "new_compute" /\ bpc = "layout"
    /\ bg_done >= Len(input_buffers)
    /\ bg_done - Len(input_buffers) < Len(output_buffers)
    /\ layout_entries' = Append(layout_entries, ComputeOutputLayoutEntry(binding))
    /\ binding' = binding + 1
    /\ bg_done' = bg_done + 1
    /\ UNCHANGED <<bgInputs, bpc, bind_group_layout, bind_group_entries, bind_group>>

\* new_compute: create_bind_group_layout, `binding = 0` (44-49)
ComputeCreateLayout ==
    /\ bg_fn = "new_compute" /\ bpc = "layout"
    /\ bg_done = Len(input_buffers) + Len(output_buffers)
    /\ bind_group_layout' = layout_entries
    /\ binding' = 0
    /\ bg_done' = 0
    /\ bpc' = "entries"
    /\ UNCHANGED <<bgInputs, layout_entries, bind_group_entries, bind_group>>

\* new_compute: one iteration of `for input_buffer in input_buffers` (51-61)
ComputeEntryInput ==
    /\ bg_fn = "new_compute" /\ bpc = "entries"
    /\ bg_done < Len(input_buffers)
    /\ bind_group_entries' =
           Append(bind_group_entries,
                  BufferBindGroupEntry(binding, input_buffers[bg_done + 1]))
    /\ binding' = binding + 1
    /\ bg_done' = bg_done + 1
    /\ UNCHANGED <<bgInputs, bpc, layout_entries, bind_group_layout, bind_group>>

\* new_compute: one iteration of `for output_buffer in output_buffers` (63-73)
ComputeEntryOutput ==
    /\ bg_fn = "new_compute" /\ bpc = "entries"
    /\ bg_done >= Len(input_buffers)
    /\ bg_done - Len(input_buffers) < Len(output_buffers)
    /\ bind_group_entries' =
           Append(bind_group_entries,
                  BufferBindGroupEntry(binding,
                                       output_buffers[(bg_done - Len(input_buffers)) + 1]))
    /\ binding' = binding + 1
    /\ bg_done' = bg_done + 1
    /\ UNCHANGED <<bgInputs, bpc, layout_entries, bind_group_layout, bind_group>>

\* new_compute: create_bind_group and return (75-84)
ComputeCreateBindGroup ==
    /\ bg_fn = "new_compute" /\ bpc = "entries"
    /\ bg_done = Len(input_buffers) + Len(output_buffers)
    /\ bind_group' = bind_group_entries
    /\ bpc' = "done"
    /\ UNCHANGED <<bgInputs, bg_done, binding, layout_entries, bind_group_layout,
                   bind_group_entries>>

\* new: one iteration of `for _ in uniform_buffers` (93-105)
NewLayoutUniform ==
    /\ bg_fn = "new" /\ bpc = "layout"
    /\ bg_done < Len(uniform_buffers)
    /\ layout_entries' = Append(layout_entries, UniformLayoutEntry(binding))
    /\ binding' = binding + 1
    /\ bg_done' = bg_done + 1
    /\ UNCHANGED <<bgInputs, bpc, bind_group_layout, bind_group_entries, bind_group>>

\* new: one iteration of `for _ in textures` (107-127)
NewLayoutTexture ==
    /\ bg_fn = "new" /\ bpc = "layout"
    /\ bg_done >= Len(uniform_buffers)
    /\ bg_done - Len(uniform_buffers) < Len(textures)
    /\ layout_entries' = layout_entries \o TextureLayoutEntries(binding)
    /\ binding' = binding + 2
    /\ bg_done' = bg_done + 1
    /\ UNCHANGED <<bgInputs, bpc, bind_group_layout, bind_group_entries, bind_group>>

\* new: create_bind_group_layout, `binding = 0` (129-134)
NewCreateLayout ==
    /\ bg_fn = "new" /\ bpc = "layout"
    /\ bg_done = Len(uniform_buffers) + Len(textures)
    /\ bind_group_layout' = layout_entries
    /\ binding' = 0
    /\ bg_done' = 0
    /\ bpc' = "entries"
    /\ UNCHANGED <<bgInputs, layout_entries, bind_group_entries, bind_group>>

\* new: one iteration of `for uniforms in uniform_buffers` (136-146)
NewEntryUniform ==
    /\ bg_fn = "new" /\ bpc = "entries"
    /\ bg_done < Len(uniform_buffers)
    /\ bind_group_entries' =
           Append(bind_group_entries,
                  BufferBindGroupEntry(binding, uniform_buffers[bg_done + 1]))
    /\ binding' = binding + 1
    /\ bg_done' = bg_done + 1
    /\ UNCHANGED <<bgInputs, bpc, layout_entries, bind_group_layout, bind_group>>

\* new: one iteration of `for texture in textures` (148-160)
NewEntryTexture ==
    /\ bg_fn = "new" /\ bpc = "entries"
    /\ bg_done >= Len(uniform_buffers)
    /\ bg_done - Len(uniform_buffers) < Len(textures)
    /\ bind_group_entries' =
           bind_group_entries
               \o TextureBindGroupEntries(binding,
                                          textures[(bg_done - Len(uniform_buffers)) + 1])
    /\ binding' = binding + 2
    /\ bg_done' = bg_done + 1
    /\ UNCHANGED <<bgInputs, bpc, layout_entries, bind_group_layout, bind_group>>

\* new: create_bind_group and return (162-171)
NewCreateBindGroup ==
    /\ bg_fn = "new" /\ bpc = "entries"
    /\ bg_done = Len(uniform_buffers) + Len(textures)
    /\ bind_group' = bind_group_entries
    /\ bpc' = "done"
    /\ UNCHANGED <<bgInputs, bg_done, binding, layout_entries, bind_group_layout,
                   bind_group_entries>>

\* ----------------------------------------------------------- frame loop

RECURSIVE Gcd(_, _)
Gcd(a, b) == IF b = 0 THEN a ELSE Gcd(b, a % b)

AspectInverted(width, height) ==
    <<height \div Gcd(width, height), width \div Gcd(width, height)>>
\* `width as f32 / height as f32`, kept as the fraction in lowest terms; the
\* projection matrix perspective_lh(45 deg, aspect, 0.01, 100.0) is a function
\* of it alone.
Aspect(width, height) ==
    <<width \div Gcd(width, height), height \div Gcd(width, height)>>

init_depth_swapped(width, height) == [width |-> height, height |-> width]
\* init_depth / Texture::depth: a depth texture of the given size
init_depth(width, height) == [width |-> width, height |-> height]

SurfaceConfigureSkipped(surface, cfg) == surface
\* surface.configure(&device, &config): the surface takes the configuration
SurfaceConfigure(surface, cfg) == cfg

WriteUniformsTimeOnly(buf, host) == [buf EXCEPT !.time = host.time]
\* queue.write_buffer(&uniform_buffer, 0, cast_slice(&[uniforms])): the whole
\* struct is written at offset 0
WriteUniforms(buf, host) == host

ExpectOrRetry(result) == IF result = "Ok" THEN "acquired" ELSE "retry"
\* `.expect("Failed to acquire next surface texture!")` on the second result
Expect(result) == IF result = "Ok" THEN "acquired" ELSE "panic"

RenderNextWithoutSubmit(pc) ==
    CASE pc = "acquired" -> "recorded"
      [] pc = "recorded" -> "idle"
      [] pc = "submitted" -> "idle"
\* render after the acquisition: record (107-150), submit (152), present (154)
RenderNext(pc) ==
    CASE pc = "acquired" -> "recorded"
      [] pc = "recorded" -> "submitted"
      [] pc = "submitted" -> "idle"

\* init_geometry: the vertex lists the application may have loaded (whole
\* triangles).
MeshSizes == {3, 6}

RenderPassCommandsDrawFirst(n) ==
    << [op |-> "begin_render_pass", first |-> 0, count |-> 0, instances |-> 0],
       [op |-> "set_pipeline", first |-> 0, count |-> 0, instances |-> 0],
       [op |-> "set_vertex_buffer", first |-> 0, count |-> 0, instances |-> 0],
       [op |-> "draw", first |-> 0, count |-> n, instances |-> 1],
       [op |-> "set_bind_group", first |-> 0, count |-> 0, instances |-> 0],
       [op |-> "end_render_pass", first |-> 0, count |-> 0, instances |-> 0] >>
\* The render pass of render (application.rs 115-148): begin_render_pass,
\* set_pipeline, set_vertex_buffer(0, ..), set_bind_group(0, ..),
\* draw(0..vertices.len(), 0..1), and the end of the pass's block.
RenderPassCommands(n) ==
    << [op |-> "begin_render_pass", first |-> 0, count |-> 0, instances |-> 0],
       [op |-> "set_pipeline", first |-> 0, count |-> 0, instances |-> 0],
       [op |-> "set_vertex_buffer", first |-> 0, count |-> 0, instances |-> 0],
       [op |-> "set_bind_group", first |-> 0, count |-> 0, instances |-> 0],
       [op |-> "draw", first |-> 0, count |-> n, instances |-> 1],
       [op |-> "end_render_pass", first |-> 0, count |-> 0, instances |-> 0] >>

\* What a resize may change: the stored size, the depth texture, the projection.
Snapshot(cfg, depth, uni) ==
    [config |-> cfg, depth_texture |-> depth, projection |-> uni.projection]

\* The results of surface.get_current_texture(): a frame or a wgpu::SurfaceError.
SurfaceErrors == {"Timeout", "Outdated", "Lost", "OutOfMemory"}
SurfaceResults == {"Ok"} \cup SurfaceErrors

\* The match arm `Err(wgpu::SurfaceError::Timeout)`: try again at once; the
\* remaining arm (Outdated | Lost | OutOfMemory) reconfigures first.
IsTimeoutArmWithOutdated(result) == result \in {"Timeout", "Outdated"}
IsTimeoutArm(result) == result = "Timeout"

GetCurrentTexture(result) ==
    [op |-> "get_current_texture", result |-> result, config |-> config]
Configure(cfg) == [op |-> "configure", result |-> "-", config |-> cfg]

FrameInit ==
    /\ fpc = "idle"
    /\ config \in [width : 1..MaxSize, height : 1..MaxSize]
    /\ surface_config = config
    /\ depth_texture = init_depth(config.width, config.height)
    /\ uniforms = [time |-> 0,
                   projection |-> Aspect(config.width, config.height)]
    /\ uniform_buffer = uniforms
    /\ output = 0
    /\ frames = 0
    /\ acquire_log = <<>>
    /\ frame_log = <<>>
    /\ last_event = "none"
    /\ new_size = <<0, 0>>
    /\ pre_resize = Snapshot(config, depth_texture, uniforms)
    /\ repeated = FALSE
    /\ vertices \in MeshSizes
    /\ commands = <<>>

FrameIdle ==
    /\ fpc = "off"
    /\ config = [width |-> 1, height |-> 1]
    /\ surface_config = config
    /\ depth_texture = init_depth(1, 1)
    /\ uniforms = [time |-> 0, projection |-> <<1, 1>>]
    /\ uniform_buffer = uniforms
    /\ output = 0
    /\ frames = 0
    /\ acquire_log = <<>>
    /\ frame_log = <<>>
    /\ last_event = "none"
    /\ new_size = <<0, 0>>
    /\ pre_resize = Snapshot(config, depth_texture, uniforms)
    /\ repeated = FALSE
    /\ vertices = 0
    /\ commands = <<>>

\* WindowEvent::Resized(new_size) => ApplicationState::resize (157-168)
Resized ==
    /\ fpc = "idle"
    /\ \E width \in 0..MaxSize, height \in 0..MaxSize :
          /\ IF width > 0 /\ height > 0
             THEN /\ config' = [width |-> width, height |-> height]
                  /\ surface_config' = SurfaceConfigure(surface_config, config')
                  /\ depth_texture' = init_depth(width, height)
                  /\ uniforms' = [uniforms EXCEPT
                                     !.projection = Aspect(width, height)]
             ELSE UNCHANGED <<config, surface_config, depth_texture, uniforms>>
          /\ new_size' = <<width, height>>
          /\ repeated' = (last_event = "Resized" /\ new_size = <<width, height>>)
    /\ last_event' = "Resized"
    /\ pre_resize' = Snapshot(config, depth_texture, uniforms)
    /\ UNCHANGED <<vertices, commands,
                   fpc, uniform_buffer, output, frames, acquire_log, frame_log>>

\* Event::AboutToWait => ApplicationState::update (78-85): the elapsed time is
\* stored and the whole uniform struct is written to the buffer.
Update ==
    /\ fpc = "idle"
    /\ frames < MaxFrames
    /\ \E elapsed \in {uniforms.time, uniforms.time + 1} :
          uniforms' = [uniforms EXCEPT !.time = elapsed]
    /\ uniform_buffer' = WriteUniforms(uniform_buffer, uniforms')
    /\ acquire_log' = <<>>
    /\ frame_log' = <<"update">>
    /\ commands' = <<>>
    /\ last_event' = "AboutToWait"
    /\ repeated' = FALSE
    /\ fpc' = "render"
    /\ UNCHANGED <<vertices,
                   config, surface_config, depth_texture, output, frames, new_size,
                   pre_resize>>

\* render: the first surface.get_current_texture() and the choice of the arm
AcquireFirst ==
    /\ fpc = "render"
    /\ \E result \in SurfaceResults :
          /\ acquire_log' = Append(acquire_log, GetCurrentTexture(result))
          /\ IF result = "Ok"
             THEN fpc' = "acquired" /\ output' = frames + 1
             ELSE IF IsTimeoutArm(result)
                  THEN fpc' = "retry" /\ output' = output
                  ELSE fpc' = "reconfigure" /\ output' = output
    /\ frame_log' = Append(frame_log, "acquire")
    /\ UNCHANGED <<vertices, commands,
                   config, surface_config, depth_texture, uniforms, uniform_buffer,
                   frames, last_event, new_size, pre_resize, repeated>>

\* render: self.surface.configure(&self.device, &self.config)
Reconfigure ==
    /\ fpc = "reconfigure"
    /\ surface_config' = SurfaceConfigure(surface_config, config)
    /\ acquire_log' = Append(acquire_log, Configure(config))
    /\ fpc' = "retry"
    /\ UNCHANGED <<vertices, commands,
                   config, depth_texture, uniforms, uniform_buffer, output, frames,
                   frame_log, last_event, new_size, pre_resize, repeated>>

\* render: the second get_current_texture() with .expect(..): any error panics
AcquireSecond ==
    /\ fpc = "retry"
    /\ \E result \in SurfaceResults :
          /\ acquire_log' = Append(acquire_log, GetCurrentTexture(result))
          /\ fpc' = Expect(result)
          /\ output' = IF result = "Ok" THEN frames + 1 ELSE output
    /\ UNCHANGED <<vertices, commands,
                   config, surface_config, depth_texture, uniforms, uniform_buffer,
                   frames, frame_log, last_event, new_size, pre_resize, repeated>>

\* render: the view, the encoder, the render pass and its draw (107-150)
RecordCommands ==
    /\ fpc = "acquired"
    /\ fpc' = RenderNext(fpc)
    /\ frame_log' = Append(frame_log, "record")
    /\ commands' = commands \o RenderPassCommands(vertices)
    /\ UNCHANGED <<vertices,
                   config, surface_config, depth_texture, uniforms, uniform_buffer,
                   output, frames, acquire_log, last_event, new_size, pre_resize, repeated>>

\* render: self.queue.submit([command])
Submit ==
    /\ fpc = "recorded"
    /\ fpc' = RenderNext(fpc)
    /\ frame_log' = Append(frame_log, "submit")
    /\ UNCHANGED <<vertices, commands,
                   config, surface_config, depth_texture, uniforms, uniform_buffer,
                   output, frames, acquire_log, last_event, new_size, pre_resize, repeated>>

\* render: output.present(); the event loop takes the next event
Present ==
    /\ fpc = "submitted"
    /\ output' = 0
    /\ frames' = frames + 1
    /\ fpc' = RenderNext(fpc)
    /\ frame_log' = Append(frame_log, "present")
    /\ UNCHANGED <<vertices, commands,
                   config, surface_config, depth_texture, uniforms, uniform_buffer,
                   acquire_log, last_event, new_size, pre_resize, repeated>>

\* ----------------------------------------------------- WgpuContext

MaxFormats == 3
MaxExtent == 1

TextureFormats == {"Bgra8Unorm", "Bgra8UnormSrgb", "Rgba8Unorm", "Rgba8UnormSrgb"}
FormatLists == SeqsUpTo(TextureFormats, MaxFormats) \ {<<>>}

\* wgpu::TextureFormat::is_srgb, as the closure of WgpuContext::new uses it
is_srgb(f) == f \in {"Bgra8UnormSrgb", "Rgba8UnormSrgb"}

RECURSIVE find_from(_, _)
find_from(fs, i) ==
    IF i > Len(fs) THEN "None"
    ELSE IF is_srgb(fs[i]) THEN fs[i] ELSE find_from(fs, i + 1)

RECURSIVE rfind_from(_, _)
rfind_from(fs, i) ==
    IF i < 1 THEN "None"
    ELSE IF is_srgb(fs[i]) THEN fs[i] ELSE rfind_from(fs, i - 1)

rfind_srgb(fs) == rfind_from(fs, Len(fs))
\* surface_caps.formats.iter().find(|f| f.is_srgb())
find_srgb(fs) == find_from(fs, 1)

\* Option::unwrap_or
unwrap_or(opt, default) == IF opt = "None" THEN default ELSE opt

NoConfig == [format |-> "None", width |-> 0, height |-> 0]
NoCall == [op |-> "none", width |-> 0, height |-> 0, before |-> NoConfig,
           calls |-> <<>>]

ContextInit ==
    /\ cpc = "start"
    /\ formats \in FormatLists
    /\ window_size \in (1..MaxExtent) \X (1..MaxExtent)
    /\ context_config = NoConfig
    /\ context_surface = NoConfig
    /\ context_last = NoCall

ContextIdle ==
    /\ cpc = "off"
    /\ formats = <<>>
    /\ window_size = <<0, 0>>
    /\ context_config = NoConfig
    /\ context_surface = NoConfig
    /\ context_last = NoCall

\* WgpuContext::new: the format, the configuration, the first configure
WgpuContextNew ==
    /\ cpc = "start"
    /\ LET surface_format == unwrap_or(find_srgb(formats), formats[1])
           cfg == [format |-> surface_format, width |-> window_size[1],
                   height |-> window_size[2]]
       IN /\ context_config' = cfg
          /\ context_surface' = SurfaceConfigure(context_surface, cfg)
          /\ context_last' = [op |-> "new", width |-> window_size[1],
                              height |-> window_size[2], before |-> context_config,
                              calls |-> <<"configure">>]
    /\ cpc' = "ready"
    /\ UNCHANGED <<formats, window_size>>

\* WgpuContext::resize
WgpuContextResize ==
    /\ cpc = "ready"
    /\ \E width \in 0..MaxExtent, height \in 0..MaxExtent :
          /\ context_config' = [context_config EXCEPT !.width = width,
                                                      !.height = height]
          /\ context_surface' = SurfaceConfigure(context_surface, context_config')
          /\ context_last' = [op |-> "resize", width |-> width, height |-> height,
                              before |-> context_config, calls |-> <<"configure">>]
    /\ UNCHANGED <<cpc, formats, window_size>>

\* WgpuContext::get_current_texture, one call from entry to return or panic
WgpuContextGetCurrentTexture ==
    /\ cpc = "ready"
    /\ \E first \in SurfaceResults, second \in SurfaceResults :
          LET called(cs) == [op |-> "get_current_texture", width |-> 0,
                             height |-> 0, before |-> context_config, calls |-> cs]
              after == IF Expect(second) = "panic" THEN "panic" ELSE "ready"
          IN IF first = "Ok"
             THEN /\ second = "Ok"
                  /\ context_last' = called(<<"get_current_texture">>)
                  /\ UNCHANGED <<cpc, context_surface>>
             ELSE IF IsTimeoutArm(first)
                  THEN /\ context_last' = called(<<"get_current_texture",
                                                   "get_current_texture">>)
                       /\ cpc' = after
                       /\ UNCHANGED context_surface
                  ELSE /\ context_surface' =
                             SurfaceConfigure(context_surface, context_config)
                       /\ context_last' = called(<<"get_current_texture",
                                                   "configure",
                                                   "get_current_texture">>)
                       /\ cpc' = after
    /\ UNCHANGED <<formats, window_size, context_config>>

\* ------------------------------------------ DataBuffer, UninitBuffer

MaxValue == 2
MaxUpdates == 2

\* 32-bit words of a Pod value; 258 has two non-zero bytes.
Words == (0..MaxValue) \cup {258}
\* A `data: T`: a struct or an array of one or two words.
DataValues == {<<v>> : v \in Words} \cup {<<v, w>> : v \in Words, w \in Words}
\* mem::align_of::<T>() is a power of two.
Aligns == {1, 2, 4, 8, 16}

to_le_bytes(v) ==
    <<v % 256, (v \div 256) % 256, (v \div 65536) % 256, (v \div 16777216) % 256>>

\* bytemuck::cast_slice(&[data]) / cast_slice(data.as_ref()): the bytes of the
\* words, in memory order (little endian)
RECURSIVE cast_slice(_)
cast_slice(ws) ==
    IF ws = <<>> THEN <<>> ELSE to_le_bytes(Head(ws)) \o cast_slice(Tail(ws))

AlignmentIsEven(a) == a % 2 = 0
\* assert!(mem::align_of::<T>() % 4 == 0, ...)
AlignmentIsMultipleOf4(a) == a % 4 = 0

NoBuffer == [created |-> FALSE, contents |-> <<>>]
\* device.create_buffer_init: a buffer holding `contents`
create_buffer_init(contents) == [created |-> TRUE, contents |-> contents]
\* device.create_buffer: a buffer of `size` bytes, nothing written yet
create_buffer(size) == [created |-> TRUE, contents |-> [i \in 1..size |-> 0]]

write_buffer_dropped(buf, offset, bytes) == buf
\* queue.write_buffer(&buffer, offset, bytes)
write_buffer(buf, offset, bytes) ==
    [buf EXCEPT !.contents =
        SubSeq(@, 1, offset) \o bytes \o SubSeq(@, offset + Len(bytes) + 1, Len(@))]

BufferInit ==
    /\ dpc = "start"
    /\ align \in Aligns
    /\ ctor = "none"
    /\ data = <<>>
    /\ device_buffer = NoBuffer
    /\ buffer_writes = 0
    /\ updates = 0
    /\ uploaded = <<>>

BufferIdle ==
    /\ dpc = "off"
    /\ align = 4
    /\ ctor = "none"
    /\ data = <<>>
    /\ device_buffer = NoBuffer
    /\ buffer_writes = 0
    /\ updates = 0
    /\ uploaded = <<>>

\* DataBuffer::new (DataBuffer::uniform is new with COPY_DST | UNIFORM)
DataBufferNew ==
    /\ dpc = "start"
    /\ ctor' = "new"
    /\ \E d \in DataValues :
          IF AlignmentIsMultipleOf4(align)
          THEN /\ device_buffer' = create_buffer_init(cast_slice(d))
               /\ data' = d
               /\ uploaded' = d
               /\ dpc' = "live"
          ELSE /\ dpc' = "panic"
               /\ UNCHANGED <<data, device_buffer, uploaded>>
    /\ UNCHANGED <<align, buffer_writes, updates>>

\* DataBuffer::from_slice
DataBufferFromSlice ==
    /\ dpc = "start"
    /\ ctor' = "from_slice"
    /\ \E d \in DataValues :
          IF AlignmentIsMultipleOf4(align)
          THEN /\ device_buffer' = create_buffer_init(cast_slice(d))
               /\ data' = d
               /\ uploaded' = d
               /\ dpc' = "live"
          ELSE /\ dpc' = "panic"
               /\ UNCHANGED <<data, device_buffer, uploaded>>
    /\ UNCHANGED <<align, buffer_writes, updates>>

\* UninitBuffer::new, for a buffer of one or two words
UninitBufferNew ==
    /\ dpc = "start"
    /\ \E size \in {4, 8} : device_buffer' = create_buffer(size)
    /\ dpc' = "uninit"
    /\ UNCHANGED <<align, ctor, data, buffer_writes, updates, uploaded>>

\* UninitBuffer::initialize, with data of the buffer's size
UninitBufferInitialize ==
    /\ dpc = "uninit"
    /\ ctor' = "initialize"
    /\ \E d \in DataValues :
          /\ Len(cast_slice(d)) = Len(device_buffer.contents)
          /\ IF AlignmentIsMultipleOf4(align)
             THEN /\ device_buffer' = write_buffer(device_buffer, 0, cast_slice(d))
                  /\ buffer_writes' = buffer_writes + 1
                  /\ data' = d
                  /\ uploaded' = d
                  /\ dpc' = "live"
             ELSE /\ dpc' = "panic"
                  /\ UNCHANGED <<data, device_buffer, buffer_writes, uploaded>>
    /\ UNCHANGED <<align, updates>>

\* The owner assigns to a field or an element of `data` (pub(crate) data: T).
MutateData ==
    /\ dpc = "live"
    /\ \E i \in 1..Len(data), v \in Words :
          /\ v # data[i]
          /\ data' = [data EXCEPT ![i] = v]
    /\ UNCHANGED <<dpc, align, ctor, device_buffer, buffer_writes, updates, uploaded>>

\* DataBuffer::update
DataBufferUpdate ==
    /\ dpc = "live"
    /\ updates < MaxUpdates
    /\ device_buffer' = write_buffer(device_buffer, 0, cast_slice(data))
    /\ buffer_writes' = buffer_writes + 1
    /\ updates' = updates + 1
    /\ uploaded' = data
    /\ UNCHANGED <<dpc, align, ctor, data>>

\* ----------------------------------------------------- save_texture

MaxCols == 4
MaxRows == 3

\* Texture widths: the small ones, and two at and above the 256-byte row.
SaveWidths == (1..MaxCols) \cup {64, 128}

\* 1 << mip_level
RECURSIVE ShiftLeftOne(_)
ShiftLeftOne(n) == IF n = 0 THEN 1 ELSE 2 * ShiftLeftOne(n - 1)

NoCopy == [width |-> 0, height |-> 0, bytes_per_row |-> 0]

\* bytes_per_row.max(256)
PaddedBytesPerRow(bytes_per_row) ==
    IF bytes_per_row >= 256 THEN bytes_per_row ELSE 256

\* copy_texture_to_buffer: row y of the level starts at byte y * bytes_per_row
\* of the buffer; slot k (bytes 4k .. 4k+3) holds texel (x, y) or padding.
CopiedBuffer(layout, len) ==
    [k \in 1..len |->
        LET row == (4 * (k - 1)) \div layout.bytes_per_row
            col == ((4 * (k - 1)) % layout.bytes_per_row) \div 4
        IN IF col < layout.width /\ row < layout.height
           THEN <<col, row>> ELSE <<"pad", "pad">>]

\* FlatSamples with SampleLayout::row_major_packed(4, width, height): texel
\* (x, y) is read at byte 4 * x + (4 * width) * y; thumbnail to the same size
\* keeps every texel.
RowMajorPacked(samples, width, height) ==
    [y \in 1..height |-> [x \in 1..width |->
        samples[(((4 * (x - 1)) + ((4 * width) * (y - 1))) \div 4) + 1]]]

ExpectIgnored(result) == "mapped"
\* .expect("communication failed").expect("buffer reading failed")
ExpectMapped(result) == IF result = "Ok" THEN "mapped" ELSE "panic"

SaveInit ==
    /\ spc = "start"
    /\ save_source \in [width : SaveWidths, height : 1..MaxRows]
    /\ save_level \in 0..1
    /\ save_source.width \div ShiftLeftOne(save_level) >= 1
    /\ save_source.height \div ShiftLeftOne(save_level) >= 1
    /\ copy_layout = NoCopy
    /\ map_state = "unrequested"
    /\ pixel_buffer = <<>>
    /\ mapped_pixels = <<>>
    /\ saved = <<>>

SaveIdle ==
    /\ spc = "off"
    /\ save_source = [width |-> 1, height |-> 1]
    /\ save_level = 0
    /\ copy_layout = NoCopy
    /\ map_state = "unrequested"
    /\ pixel_buffer = <<>>
    /\ mapped_pixels = <<>>
    /\ saved = <<>>

\* The sizes, the buffer, the copy command and queue.submit (87-125).
SaveSubmitCopy ==
    /\ spc = "start"
    /\ LET width == save_source.width \div ShiftLeftOne(save_level)
           height == save_source.height \div ShiftLeftOne(save_level)
           bytes_per_row == (width * 4) * 1
       IN copy_layout' = [width |-> width, height |-> height,
                          bytes_per_row |-> PaddedBytesPerRow(bytes_per_row)]
    /\ spc' = "submitted"
    /\ UNCHANGED <<save_source, save_level, map_state, pixel_buffer, mapped_pixels,
                   saved>>

\* buffer.slice(..).map_async(MapMode::Read, callback) (127-133)
SaveMapAsync ==
    /\ spc = "submitted"
    /\ map_state' = "pending"
    /\ spc' = "poll"
    /\ UNCHANGED <<save_source, save_level, copy_layout, pixel_buffer,
                   mapped_pixels, saved>>

\* device.poll(Maintain::Wait): the submitted copy completes and the callback
\* sends the result of the mapping (134, 131-133).
SaveDevicePoll ==
    /\ spc = "poll"
    /\ map_state = "pending"
    /\ pixel_buffer' = CopiedBuffer(copy_layout,
                           (copy_layout.bytes_per_row * copy_layout.height) \div 4)
    /\ \E result \in {"Ok", "Err"} : map_state' = result
    /\ spc' = "receive"
    /\ UNCHANGED <<save_source, save_level, copy_layout, mapped_pixels, saved>>

\* receiver.block_on() and the two expects (135-138)
SaveReceive ==
    /\ spc = "receive"
    /\ spc' = ExpectMapped(map_state)
    /\ UNCHANGED <<save_source, save_level, copy_layout, map_state, pixel_buffer,
                   mapped_pixels, saved>>

\* get_mapped_range, the packed layout, the view and the save (139-158)
SaveReadAndWrite ==
    /\ spc = "mapped"
    /\ mapped_pixels' = pixel_buffer
    /\ saved' = RowMajorPacked(pixel_buffer, copy_layout.width, copy_layout.height)
    /\ spc' = "saved"
    /\ UNCHANGED <<save_source, save_level, copy_layout, map_state, pixel_buffer>>

\* ----------------------------------------------------- EguiRenderer::draw

MaxDelta == 2

\* Texture ids, and the lists textures_delta.set and .free may hold.
TextureIdLists == SeqsUpTo(1..MaxDelta, MaxDelta)

Call(op, id) == [op |-> op, id |-> id]

GuiNextFreeBeforePass(pc) ==
    CASE pc = "start" -> "tessellate"
      [] pc = "tessellate" -> "set"
      [] pc = "set" -> "free"
      [] pc = "free" -> "pass"
      [] pc = "pass" -> "done"
\* The statements of draw in program order: run (158-164), tessellate
\* (166-168), the set loop and update_buffers (169-174), the render pass
\* (175-190), the free loop (191-193).
GuiNext(pc) ==
    CASE pc = "start" -> "tessellate"
      [] pc = "tessellate" -> "set"
      [] pc = "set" -> "pass"
      [] pc = "pass" -> "free"
      [] pc = "free" -> "done"

NoDelta == [set |-> <<>>, free |-> <<>>]

GuiInit ==
    /\ gpc = "start"
    /\ textures_delta = NoDelta
    /\ gui_index = 0
    /\ gui_log = <<>>

GuiIdle ==
    /\ gpc = "off"
    /\ textures_delta = NoDelta
    /\ gui_index = 0
    /\ gui_log = <<>>

\* take_egui_input, context.run with the closure that calls run_ui, and
\* handle_platform_output; full_output carries the texture deltas.
GuiRun ==
    /\ gpc = "start"
    /\ gui_log' = gui_log \o << Call("take_egui_input", 0), Call("run_ui", 0),
                                Call("handle_platform_output", 0) >>
    /\ \E set \in TextureIdLists, free \in TextureIdLists :
          textures_delta' = [set |-> set, free |-> free]
    /\ gpc' = GuiNext(gpc)
    /\ UNCHANGED gui_index

\* context.tessellate(full_output.shapes, full_output.pixels_per_point)
GuiTessellate ==
    /\ gpc = "tessellate"
    /\ gui_log' = Append(gui_log, Call("tessellate", 0))
    /\ gui_index' = 0
    /\ gpc' = GuiNext(gpc)
    /\ UNCHANGED textures_delta

\* One iteration of `for (id, image_delta) in &full_output.textures_delta.set`
GuiUpdateTexture ==
    /\ gpc = "set"
    /\ gui_index < Len(textures_delta.set)
    /\ gui_log' = Append(gui_log,
                         Call("update_texture", textures_delta.set[gui_index + 1]))
    /\ gui_index' = gui_index + 1
    /\ UNCHANGED <<gpc, textures_delta>>

\* The loop is over: renderer.update_buffers
GuiUpdateBuffers ==
    /\ gpc = "set"
    /\ gui_index >= Len(textures_delta.set)
    /\ gui_log' = Append(gui_log, Call("update_buffers", 0))
    /\ gui_index' = 0
    /\ gpc' = GuiNext(gpc)
    /\ UNCHANGED textures_delta

\* begin_render_pass, renderer.render, drop(rpass)
GuiRenderPass ==
    /\ gpc = "pass"
    /\ gui_log' = gui_log \o << Call("begin_render_pass", 0), Call("render", 0),
                                Call("end_render_pass", 0) >>
    /\ gui_index' = 0
    /\ gpc' = GuiNext(gpc)
    /\ UNCHANGED textures_delta

\* One iteration of `for x in &full_output.textures_delta.free`
GuiFreeTexture ==
    /\ gpc = "free"
    /\ gui_index < Len(textures_delta.free)
    /\ gui_log' = Append(gui_log,
                         Call("free_texture", textures_delta.free[gui_index + 1]))
    /\ gui_index' = gui_index + 1
    /\ UNCHANGED <<gpc, textures_delta>>

\* The loop is over
GuiFreeDone ==
    /\ gpc = "free"
    /\ gui_index >= Len(textures_delta.free)
    /\ gui_index' = 0
    /\ gpc' = GuiNext(gpc)
    /\ UNCHANGED <<textures_delta, gui_log>>

\* ----------------------------------------------------- load_geometry

MaxModels == 2
MaxMeshVertices == 4

\* The meshes tobj may return (single_index, triangulate): n vertices and one
\* triangle of indices below n.
Meshes ==
    {[vertex_count |-> n, indices |-> <<a, b, c>>] :
        n \in 3..MaxMeshVertices,
        a \in 0..(MaxMeshVertices - 1), b \in 0..(MaxMeshVertices - 1),
        c \in 0..(MaxMeshVertices - 1)}
ValidMeshes ==
    {m \in Meshes : /\ m.indices[1] < m.indices[2]
                    /\ m.indices[2] < m.indices[3]
                    /\ m.indices[3] < m.vertex_count}
ModelLists == SeqsUpTo(ValidMeshes, MaxModels)

\* indices.extend(&mesh.indices): the indices are appended as they are
ExtendIndices(all, mesh) == all \o mesh.indices

\* vertices.extend(..): one VertexAttribute per position of the mesh; the
\* model keeps which model and which of its positions it came from.
ExtendVertices(all, mesh, k) ==
    all \o [v \in 1..mesh.vertex_count |-> [model |-> k, position |-> v - 1]]

GeometryInit ==
    /\ lpc = "start"
    /\ models = <<>>
    /\ model_index = 0
    /\ loaded_vertices = <<>>
    /\ indices = <<>>
    /\ index_model = <<>>

GeometryIdle ==
    /\ lpc = "off"
    /\ models = <<>>
    /\ model_index = 0
    /\ loaded_vertices = <<>>
    /\ indices = <<>>
    /\ index_model = <<>>

\* tobj::load_obj (282-291)
LoadObj ==
    /\ lpc = "start"
    /\ models' \in ModelLists
    /\ lpc' = "models"
    /\ UNCHANGED <<model_index, loaded_vertices, indices, index_model>>

\* One iteration of `for model in &models` (294-341)
LoadModel ==
    /\ lpc = "models"
    /\ model_index < Len(models)
    /\ LET mesh == models[model_index + 1]
       IN /\ indices' = ExtendIndices(indices, mesh)
          /\ index_model' = index_model
                              \o [n \in 1..Len(mesh.indices) |-> model_index + 1]
          /\ loaded_vertices' = ExtendVertices(loaded_vertices, mesh, model_index + 1)
    /\ model_index' = model_index + 1
    /\ UNCHANGED <<lpc, models>>

\* The tangent loop `for i in indices.chunks_exact(3)` (343-353), which
\* indexes `vertices` with every index, and the return (355).
LoadGeometryReturn ==
    /\ lpc = "models"
    /\ model_index >= Len(models)
    /\ lpc' = IF \A n \in 1..Len(indices) : indices[n] < Len(loaded_vertices)
              THEN "done" ELSE "panic"
    /\ UNCHANGED <<models, model_index, loaded_vertices, indices, index_model>>

\* --------------------------------------------------- specifications

vars == <<size_in, mip_level_count, image, texture, mpc, level, mip_level_size,
          previous_level_pixels, writes, mip_sizes, mip_views, bind_groups,
          dispatches, submitted, bg_fn, uniform_buffers, textures, input_buffers,
          output_buffers, bpc, bg_done, binding, layout_entries, bind_group_layout,
          bind_group_entries, bind_group, fpc, config, surface_config,
          depth_texture, uniforms, uniform_buffer, output, frames, acquire_log,
          frame_log, last_event, new_size, pre_resize, repeated, vertices,
          commands, cpc, formats,
          window_size, context_config, context_surface, context_last, dpc, align,
          ctor, data, device_buffer, buffer_writes, updates, uploaded, spc,
          save_source, save_level, copy_layout, map_state, pixel_buffer,
          mapped_pixels, saved, gpc, textures_delta, gui_index, gui_log, lpc,
          models, model_index, loaded_vertices, indices, index_model>>

InitCount ==
    CountInit /\ MipIdle /\ BindIdle /\ FrameIdle /\ ContextIdle /\ BufferIdle /\ SaveIdle
    /\ GuiIdle /\ GeometryIdle
NextCount ==
    \/ (LoadTextureLevelCount /\ UNCHANGED <<mipVars, bgVars, frameVars, contextVars,
                              bufferVars, saveVars, guiVars,
                                 geometryVars>>)
    \/ (MainLoadTextureLevelCount /\ UNCHANGED <<mipVars, bgVars, frameVars, contextVars,
                              bufferVars, saveVars, guiVars,
                                 geometryVars>>)
SpecCount == InitCount /\ [][NextCount]_vars

InitMip ==
    MipInit /\ CountIdle /\ BindIdle /\ FrameIdle /\ ContextIdle /\ BufferIdle /\ SaveIdle
    /\ GuiIdle /\ GeometryIdle
NextMip ==
    \/ (MainLoadTexture /\ UNCHANGED <<countVars, bgVars, frameVars, contextVars,
                              bufferVars, saveVars, guiVars,
                                 geometryVars>>)
    \/ (WriteMipmapsLevel /\ UNCHANGED <<countVars, bgVars, frameVars, contextVars,
                              bufferVars, saveVars, guiVars,
                                 geometryVars>>)
    \/ (WriteMipmapsReturn /\ UNCHANGED <<countVars, bgVars, frameVars, contextVars,
                              bufferVars, saveVars, guiVars,
                                 geometryVars>>)
    \/ (LoadTexture /\ UNCHANGED <<countVars, bgVars, frameVars, contextVars,
                              bufferVars, saveVars, guiVars,
                                 geometryVars>>)
    \/ (CreateMipView /\ UNCHANGED <<countVars, bgVars, frameVars, contextVars,
                              bufferVars, saveVars, guiVars,
                                 geometryVars>>)
    \/ (CreateMipLayout /\ UNCHANGED <<countVars, bgVars, frameVars, contextVars,
                              bufferVars, saveVars, guiVars,
                                 geometryVars>>)
    \/ (CreateMipBindGroup /\ UNCHANGED <<countVars, bgVars, frameVars, contextVars,
                              bufferVars, saveVars, guiVars,
                                 geometryVars>>)
    \/ (BeginComputePass /\ UNCHANGED <<countVars, bgVars, frameVars, contextVars,
                              bufferVars, saveVars, guiVars,
                                 geometryVars>>)
    \/ (DispatchMipLevel /\ UNCHANGED <<countVars, bgVars, frameVars, contextVars,
                              bufferVars, saveVars, guiVars,
                                 geometryVars>>)
    \/ (SubmitMipCommands /\ UNCHANGED <<countVars, bgVars, frameVars, contextVars,
                              bufferVars, saveVars, guiVars,
                                 geometryVars>>)
SpecMip == InitMip /\ [][NextMip]_vars

InitBind ==
    BindInit /\ CountIdle /\ MipIdle /\ FrameIdle /\ ContextIdle /\ BufferIdle /\ SaveIdle
    /\ GuiIdle /\ GeometryIdle
NextBind ==
    \/ (ComputeLayoutInput /\ UNCHANGED <<countVars, mipVars, frameVars, contextVars,
                              bufferVars, saveVars, guiVars,
                                 geometryVars>>)
    \/ (ComputeLayoutOutput /\ UNCHANGED <<countVars, mipVars, frameVars, contextVars,
                              bufferVars, saveVars, guiVars,
                                 geometryVars>>)
    \/ (ComputeCreateLayout /\ UNCHANGED <<countVars, mipVars, frameVars, contextVars,
                              bufferVars, saveVars, guiVars,
                                 geometryVars>>)
    \/ (ComputeEntryInput /\ UNCHANGED <<countVars, mipVars, frameVars, contextVars,
                              bufferVars, saveVars, guiVars,
                                 geometryVars>>)
    \/ (ComputeEntryOutput /\ UNCHANGED <<countVars, mipVars, frameVars, contextVars,
                              bufferVars, saveVars, guiVars,
                                 geometryVars>>)
    \/ (ComputeCreateBindGroup /\ UNCHANGED <<countVars, mipVars, frameVars, contextVars,
                              bufferVars, saveVars, guiVars,
                                 geometryVars>>)
    \/ (NewLayoutUniform /\ UNCHANGED <<countVars, mipVars, frameVars, contextVars,
                              bufferVars, saveVars, guiVars,
                                 geometryVars>>)
    \/ (NewLayoutTexture /\ UNCHANGED <<countVars, mipVars, frameVars, contextVars,
                              bufferVars, saveVars, guiVars,
                                 geometryVars>>)
    \/ (NewCreateLayout /\ UNCHANGED <<countVars, mipVars, frameVars, contextVars,
                              bufferVars, saveVars, guiVars,
                                 geometryVars>>)
    \/ (NewEntryUniform /\ UNCHANGED <<countVars, mipVars, frameVars, contextVars,
                              bufferVars, saveVars, guiVars,
                                 geometryVars>>)
    \/ (NewEntryTexture /\ UNCHANGED <<countVars, mipVars, frameVars, contextVars,
                              bufferVars, saveVars, guiVars,
                                 geometryVars>>)
    \/ (NewCreateBindGroup /\ UNCHANGED <<countVars, mipVars, frameVars, contextVars,
                              bufferVars, saveVars, guiVars,
                                 geometryVars>>)
SpecBind == InitBind /\ [][NextBind]_vars

InitFrame ==
    FrameInit /\ CountIdle /\ MipIdle /\ BindIdle /\ ContextIdle /\ BufferIdle /\ SaveIdle
    /\ GuiIdle /\ GeometryIdle
NextFrame ==
    \/ (Resized /\ UNCHANGED <<countVars, mipVars, bgVars, contextVars,
                              bufferVars, saveVars, guiVars,
                                 geometryVars>>)
    \/ (Update /\ UNCHANGED <<countVars, mipVars, bgVars, contextVars,
                              bufferVars, saveVars, guiVars,
                                 geometryVars>>)
    \/ (AcquireFirst /\ UNCHANGED <<countVars, mipVars, bgVars, contextVars,
                              bufferVars, saveVars, guiVars,
                                 geometryVars>>)
    \/ (Reconfigure /\ UNCHANGED <<countVars, mipVars, bgVars, contextVars,
                              bufferVars, saveVars, guiVars,
                                 geometryVars>>)
    \/ (AcquireSecond /\ UNCHANGED <<countVars, mipVars, bgVars, contextVars,
                              bufferVars, saveVars, guiVars,
                                 geometryVars>>)
    \/ (RecordCommands /\ UNCHANGED <<countVars, mipVars, bgVars, contextVars,
                              bufferVars, saveVars, guiVars,
                                 geometryVars>>)
    \/ (Submit /\ UNCHANGED <<countVars, mipVars, bgVars, contextVars,
                              bufferVars, saveVars, guiVars,
                                 geometryVars>>)
    \/ (Present /\ UNCHANGED <<countVars, mipVars, bgVars, contextVars,
                              bufferVars, saveVars, guiVars,
                                 geometryVars>>)
SpecFrame == InitFrame /\ [][NextFrame]_vars

InitContext ==
    ContextInit /\ CountIdle /\ MipIdle /\ BindIdle /\ FrameIdle /\ BufferIdle /\ SaveIdle
    /\ GuiIdle /\ GeometryIdle
NextContext ==
    \/ (WgpuContextNew /\ UNCHANGED <<countVars, mipVars, bgVars, frameVars,
                                     bufferVars, saveVars, guiVars,
                                 geometryVars>>)
    \/ (WgpuContextResize /\ UNCHANGED <<countVars, mipVars, bgVars, frameVars,
                                        bufferVars, saveVars, guiVars,
                                 geometryVars>>)
    \/ (WgpuContextGetCurrentTexture /\ UNCHANGED <<countVars, mipVars, bgVars,
                                                   frameVars, bufferVars, saveVars, guiVars,
                                 geometryVars>>)
SpecContext == InitContext /\ [][NextContext]_vars

InitBuffer ==
    BufferInit /\ CountIdle /\ MipIdle /\ BindIdle /\ FrameIdle /\ ContextIdle /\ SaveIdle
    /\ GuiIdle /\ GeometryIdle
NextBuffer ==
    \/ (DataBufferNew /\ UNCHANGED <<countVars, mipVars, bgVars, frameVars,
                                    contextVars, saveVars, guiVars,
                                 geometryVars>>)
    \/ (DataBufferFromSlice /\ UNCHANGED <<countVars, mipVars, bgVars, frameVars,
                                          contextVars, saveVars, guiVars,
                                 geometryVars>>)
    \/ (UninitBufferNew /\ UNCHANGED <<countVars, mipVars, bgVars, frameVars,
                                      contextVars, saveVars, guiVars,
                                 geometryVars>>)
    \/ (UninitBufferInitialize /\ UNCHANGED <<countVars, mipVars, bgVars, frameVars,
                                             contextVars, saveVars, guiVars,
                                 geometryVars>>)
    \/ (MutateData /\ UNCHANGED <<countVars, mipVars, bgVars, frameVars,
                                 contextVars, saveVars, guiVars,
                                 geometryVars>>)
    \/ (DataBufferUpdate /\ UNCHANGED <<countVars, mipVars, bgVars, frameVars,
                                       contextVars, saveVars, guiVars,
                                 geometryVars>>)
SpecBuffer == InitBuffer /\ [][NextBuffer]_vars

InitSave ==
    SaveInit /\ CountIdle /\ MipIdle /\ BindIdle /\ FrameIdle /\ ContextIdle /\ BufferIdle
    /\ GuiIdle /\ GeometryIdle
NextSave ==
    \/ (SaveSubmitCopy /\ UNCHANGED <<countVars, mipVars, bgVars, frameVars,
                                     contextVars, bufferVars, guiVars,
                                 geometryVars>>)
    \/ (SaveMapAsync /\ UNCHANGED <<countVars, mipVars, bgVars, frameVars,
                                   contextVars, bufferVars, guiVars,
                                 geometryVars>>)
    \/ (SaveDevicePoll /\ UNCHANGED <<countVars, mipVars, bgVars, frameVars,
                                     contextVars, bufferVars, guiVars,
                                 geometryVars>>)
    \/ (SaveReceive /\ UNCHANGED <<countVars, mipVars, bgVars, frameVars,
                                  contextVars, bufferVars, guiVars,
                                 geometryVars>>)
    \/ (SaveReadAndWrite /\ UNCHANGED <<countVars, mipVars, bgVars, frameVars,
                                       contextVars, bufferVars, guiVars,
                                 geometryVars>>)
SpecSave == InitSave /\ [][NextSave]_vars

InitGui ==
    GuiInit /\ CountIdle /\ MipIdle /\ BindIdle /\ FrameIdle /\ ContextIdle /\ BufferIdle
    /\ SaveIdle /\ GeometryIdle
NextGui ==
    \/ (GuiRun /\ UNCHANGED <<countVars, mipVars, bgVars, frameVars,
                                 contextVars, bufferVars, saveVars,
                                 geometryVars>>)
    \/ (GuiTessellate /\ UNCHANGED <<countVars, mipVars, bgVars, frameVars,
                                 contextVars, bufferVars, saveVars,
                                 geometryVars>>)
    \/ (GuiUpdateTexture /\ UNCHANGED <<countVars, mipVars, bgVars, frameVars,
                                 contextVars, bufferVars, saveVars,
                                 geometryVars>>)
    \/ (GuiUpdateBuffers /\ UNCHANGED <<countVars, mipVars, bgVars, frameVars,
                                 contextVars, bufferVars, saveVars,
                                 geometryVars>>)
    \/ (GuiRenderPass /\ UNCHANGED <<countVars, mipVars, bgVars, frameVars,
                                 contextVars, bufferVars, saveVars,
                                 geometryVars>>)
    \/ (GuiFreeTexture /\ UNCHANGED <<countVars, mipVars, bgVars, frameVars,
                                 contextVars, bufferVars, saveVars,
                                 geometryVars>>)
    \/ (GuiFreeDone /\ UNCHANGED <<countVars, mipVars, bgVars, frameVars,
                                 contextVars, bufferVars, saveVars,
                                 geometryVars>>)
SpecGui == InitGui /\ [][NextGui]_vars

InitGeometry ==
    GeometryInit /\ CountIdle /\ MipIdle /\ BindIdle /\ FrameIdle /\ ContextIdle
    /\ BufferIdle /\ SaveIdle /\ GuiIdle
NextGeometry ==
    \/ (LoadObj /\ UNCHANGED <<countVars, mipVars, bgVars, frameVars,
                                 contextVars, bufferVars, saveVars, guiVars>>)
    \/ (LoadModel /\ UNCHANGED <<countVars, mipVars, bgVars, frameVars,
                                 contextVars, bufferVars, saveVars, guiVars>>)
    \/ (LoadGeometryReturn /\ UNCHANGED <<countVars, mipVars, bgVars, frameVars,
                                 contextVars, bufferVars, saveVars, guiVars>>)
SpecGeometry == InitGeometry /\ [][NextGeometry]_vars

\* ------------------------------------------------ mip level count, C1

RECURSIVE Pow2(_)
Pow2(n) == IF n <= 0 THEN 1 ELSE 2 * Pow2(n - 1)

LongestSide == IF size_in[1] >= size_in[2] THEN size_in[1] ELSE size_in[2]

\* C1: for every image of width W >= 1 and height H >= 1 the level count put
\* in the texture descriptor is 1 + floor(log2(max(W,H))), that is the n with
\* 2^(n-1) <= max(W,H) < 2^n; a 256 x 256 image gets 9 levels.
C1_MipLevelCount ==
    mip_level_count # -1 =>
        /\ mip_level_count >= 1
        /\ Pow2(mip_level_count - 1) <= LongestSide
        /\ LongestSide < Pow2(mip_level_count)
        /\ (size_in = <<256, 256>> => mip_level_count = 9)

C1_Witness == size_in = <<256, 256>> /\ mip_level_count = 9

\* ------------------------------------------------ write_mipmaps, C2-C6

\* The texel at column x, row y of an uploaded level, as write_texture reads
\* the data: rows of bytes_per_row bytes, 4 bytes a texel.
Texel(write, x, y) ==
    [c \in 1..4 |-> write.data[(y * write.bytes_per_row) + (4 * x) + c]]

\* The truncating average of the 2x2 block of a level whose corner is (2x,2y).
BoxAverage(write, x, y) ==
    [c \in 1..4 |->
        (Texel(write, 2 * x, 2 * y)[c] + Texel(write, (2 * x) + 1, 2 * y)[c]
         + Texel(write, 2 * x, (2 * y) + 1)[c]
         + Texel(write, (2 * x) + 1, (2 * y) + 1)[c]) \div 4]

\* C2: in write_mipmaps the texel at column x, row y of every level L >= 1 is
\* derived from the texels (2x,2y), (2x+1,2y), (2x,2y+1), (2x+1,2y+1) of level
\* L-1, read with the row width of level L-1; for a 4x4 image of four uniform
\* quadrants every texel of level 1 has the colour of its quadrant.
C2_BoxFilterPosition ==
    \A k \in 2..Len(writes) :
        \A x \in 0..(writes[k].width - 1), y \in 0..(writes[k].height - 1) :
            /\ Texel(writes[k], x, y) = BoxAverage(writes[k - 1], x, y)
            /\ (image.kind = "blocks" /\ image.width = 4 /\ image.height = 4 /\ k = 2)
                   => Texel(writes[k], x, y) = ImagePixel(image, 2 * x, 2 * y)

\* C3: every channel of every generated pixel is the truncating quotient by 4
\* of the sum, formed without 8-bit wrap-around, of that channel of the four
\* source pixels, hence in 0..255; 10,20,30,40 give 25 and 1,1,1,2 give 1.
C3_ChannelAverage ==
    \A k \in 2..Len(writes) :
        LET prev == writes[k - 1].data
            out == writes[k].data
            w == writes[k].width
            h == writes[k].height
        IN \A i \in 0..(w - 1), j \in 0..(h - 1), c \in 1..4 :
              LET a == prev[I00(w, i, j) + c]
                  b == prev[I01(w, i, j) + c]
                  cc == prev[I10(w, i, j) + c]
                  d == prev[I11(w, i, j) + c]
                  v == out[(4 * ((i * h) + j)) + c]
              IN /\ 4 * v <= a + b + cc + d
                 /\ a + b + cc + d < (4 * v) + 4
                 /\ v \in 0..255
                 /\ (<<a, b, cc, d>> = <<10, 20, 30, 40>> => v = 25)
                 /\ (<<a, b, cc, d>> = <<1, 1, 1, 2>> => v = 1)

\* Level 1 of the 2x2 sample image: 10,20,30,40 -> 25; 1,1,1,2 -> 1;
\* 255 four times -> 255 (a sum of 1020); 255,254,253,255 -> 254.
C3_Witness ==
    /\ image = [width |-> 2, height |-> 2, kind |-> "samples"]
    /\ Len(writes) = 2
    /\ writes[2].data = <<25, 1, 255, 254>>

\* C4: the size used for level L by both generators is (W div 2^L, H div 2^L),
\* and when a generator has finished it has iterated exactly mip_level_count
\* levels, level 0 included.
C4_LevelSizes ==
    /\ \A k \in 1..Len(writes) :
          /\ writes[k].width = texture.width \div Pow2(writes[k].mip_level)
          /\ writes[k].height = texture.height \div Pow2(writes[k].mip_level)
    /\ \A k \in 1..Len(mip_sizes) :
          /\ mip_sizes[k].width = texture.width \div Pow2(k - 1)
          /\ mip_sizes[k].height = texture.height \div Pow2(k - 1)
    /\ (mpc = "done" /\ ~submitted) => Len(writes) = texture.mip_level_count
    /\ (mpc = "done" /\ submitted) =>
          /\ Len(mip_sizes) = texture.mip_level_count
          /\ Len(mip_views) = texture.mip_level_count

\* A generator has finished a 3x4 image: levels 3x4, 1x2 and 0x1.
C4_Witness ==
    /\ mpc = "done"
    /\ texture.width = 3
    /\ texture.height = 4
    /\ \/ Len(writes) = 3 /\ writes[2].width = 1 /\ writes[2].height = 2
       \/ Len(mip_sizes) = 3 /\ mip_sizes[2] = [width |-> 1, height |-> 2]

\* C5: write_mipmaps never computes or uploads a level whose width or height
\* is 0, for any image with W >= 1 and H >= 1.
C5_NoZeroLevel ==
    \A k \in 1..Len(writes) : writes[k].width >= 1 /\ writes[k].height >= 1

\* The levels written so far, in the order of their writing: the uploads,
\* then the dispatches (each writes the level of its storage view, binding 1).
WrittenLevels ==
    [k \in 1..Len(writes) |-> writes[k].mip_level]
        \o [k \in 1..Len(dispatches) |-> dispatches[k].bind_group.binding1.base_mip_level]

\* C6: the levels are written in the order 0, 1, 2, ..., each once and none
\* beyond mip_level_count - 1, and when the generation has finished all of
\* 0..mip_level_count-1 are written; an upload of level L carries
\* 4 * width_L * height_L bytes; on the GPU path only level 0 is uploaded and
\* the dispatch of level L reads level L-1.
C6_AllLevelsOnce ==
    /\ \A k \in 1..Len(WrittenLevels) : WrittenLevels[k] = k - 1
    /\ Len(WrittenLevels) <= texture.mip_level_count
    /\ mpc = "done" => Len(WrittenLevels) = texture.mip_level_count
    /\ \A k \in 1..Len(writes) :
          Len(writes[k].data) =
              4 * (texture.width \div Pow2(k - 1)) * (texture.height \div Pow2(k - 1))
    /\ Len(dispatches) > 0 => Len(writes) = 1
    /\ \A k \in 1..Len(dispatches) :
          dispatches[k].bind_group.binding0.base_mip_level = k - 1

\* Either generator has finished a texture of three levels.
C6_Witness ==
    /\ mpc = "done"
    /\ texture.mip_level_count = 3
    /\ WrittenLevels = <<0, 1, 2>>

C6_WitnessGpu ==
    /\ mpc = "done"
    /\ submitted
    /\ Len(dispatches) = 2

\* ------------------------------------------------ BindGroup, C7-C9

LayoutCreated == bpc \in {"entries", "done"}

\* The binding numbers of a list of entries, in list order.
Bindings(entries) == [k \in 1..Len(entries) |-> entries[k].binding]

\* The entries of a list that carry binding number s.
AtSlot(entries, s) == {k \in 1..Len(entries) : entries[k].binding = s}

\* C7: BindGroup::new with N uniform buffers and M textures makes layout
\* entries whose binding numbers are exactly 0..N+2M-1, each used once;
\* slot i < N is a uniform buffer visible to VERTEX_FRAGMENT, slot N+2k is the
\* view and slot N+2k+1 the sampler of texture k, both visible to FRAGMENT;
\* N = 2, M = 2 gives the slots 0,1 and 2,3 and 4,5.
C7_NewSlots ==
    (bg_fn = "new" /\ LayoutCreated) =>
        LET n == Len(uniform_buffers)
            m == Len(textures)
            lay == bind_group_layout
        IN /\ Len(lay) = n + (2 * m)
           /\ \A s \in 0..(n + (2 * m) - 1) : Cardinality(AtSlot(lay, s)) = 1
           /\ \A k \in 1..Len(lay) :
                 LET s == lay[k].binding
                 IN /\ s \in 0..(n + (2 * m) - 1)
                    /\ s < n => /\ lay[k].visibility = "VERTEX_FRAGMENT"
                                /\ lay[k].ty = "Buffer:Uniform"
                    /\ (s >= n /\ (s - n) % 2 = 0) =>
                           /\ lay[k].visibility = "FRAGMENT"
                           /\ lay[k].ty = "Texture"
                    /\ (s >= n /\ (s - n) % 2 = 1) =>
                           /\ lay[k].visibility = "FRAGMENT"
                           /\ lay[k].ty = "Sampler:Filtering"
           /\ (n = 2 /\ m = 2) => Bindings(lay) = <<0, 1, 2, 3, 4, 5>>

C7_Witness ==
    /\ bg_fn = "new"
    /\ LayoutCreated
    /\ Len(uniform_buffers) = 2
    /\ Len(textures) = 2
    /\ Bindings(bind_group_layout) = <<0, 1, 2, 3, 4, 5>>

\* The resource kind a layout entry type declares.
DeclaredKind(ty) ==
    CASE ty = "Texture" -> "TextureView"
      [] ty = "Sampler:Filtering" -> "Sampler"
      [] OTHER -> "Buffer"

\* The resources handed to a constructor, in input order.
RECURSIVE TextureInputs(_)
TextureInputs(texs) ==
    IF texs = <<>> THEN <<>>
    ELSE << [kind |-> "TextureView", handle |-> Head(texs), offset |-> 0],
            [kind |-> "Sampler", handle |-> Head(texs), offset |-> 0] >>
             \o TextureInputs(Tail(texs))

BufferInputs(bufs) ==
    [k \in 1..Len(bufs) |-> [kind |-> "Buffer", handle |-> bufs[k], offset |-> 0]]

InputsInOrder ==
    IF bg_fn = "new"
    THEN BufferInputs(uniform_buffers) \o TextureInputs(textures)
    ELSE BufferInputs(input_buffers) \o BufferInputs(output_buffers)

\* C8: for every input of BindGroup::new and BindGroup::new_compute the
\* binding numbers of the bind group entries are, in order, those of the
\* layout entries; the resource bound at a slot is of the kind the layout
\* declares for the slot; and the resource at slot i is the i-th input.
C8_InstanceMatchesLayout ==
    bpc = "done" =>
        /\ Bindings(bind_group) = Bindings(bind_group_layout)
        /\ \A k \in 1..Len(bind_group) :
              \A l \in AtSlot(bind_group_layout, bind_group[k].binding) :
                  bind_group[k].resource.kind = DeclaredKind(bind_group_layout[l].ty)
        /\ Len(bind_group) = Len(InputsInOrder)
        /\ \A i \in 0..(Len(InputsInOrder) - 1) :
              \A k \in AtSlot(bind_group, i) :
                  bind_group[k].resource = InputsInOrder[i + 1]
        /\ \A i \in 0..(Len(InputsInOrder) - 1) : AtSlot(bind_group, i) # {}

C8_Witness ==
    /\ bpc = "done"
    /\ bg_fn = "new"
    /\ uniform_buffers = <<2, 1>>
    /\ textures = <<2, 1>>
    /\ Len(bind_group) = 6

C8_WitnessCompute ==
    /\ bpc = "done"
    /\ bg_fn = "new_compute"
    /\ Len(bind_group) = 4

\* C9: BindGroup::new_compute with R input and S output buffers gives the
\* slots 0..R-1 to the read-only storage buffers, in input order, and the
\* slots R..R+S-1 to the read-write storage buffers, in input order; every
\* entry is visible to the COMPUTE stage only.
C9_ComputeSlots ==
    (bg_fn = "new_compute" /\ bpc = "done") =>
        LET r == Len(input_buffers)
            t == Len(output_buffers)
            lay == bind_group_layout
        IN /\ Len(lay) = r + t
           /\ Len(bind_group) = r + t
           /\ \A s \in 0..(r + t - 1) :
                 /\ Cardinality(AtSlot(lay, s)) = 1
                 /\ Cardinality(AtSlot(bind_group, s)) = 1
           /\ \A k \in 1..Len(lay) :
                 /\ lay[k].visibility = "COMPUTE"
                 /\ lay[k].binding < r => lay[k].ty = "Buffer:Storage{read_only:true}"
                 /\ lay[k].binding >= r => lay[k].ty = "Buffer:Storage{read_only:false}"
           /\ \A k \in 1..Len(bind_group) :
                 LET s == bind_group[k].binding
                 IN /\ bind_group[k].resource.kind = "Buffer"
                    /\ s < r => bind_group[k].resource.handle = input_buffers[s + 1]
                    /\ s >= r =>
                          bind_group[k].resource.handle = output_buffers[(s - r) + 1]

C9_Witness ==
    /\ bg_fn = "new_compute"
    /\ bpc = "done"
    /\ input_buffers = <<1, 2>>
    /\ output_buffers = <<2, 1>>
    /\ Bindings(bind_group_layout) = <<0, 1, 2, 3>>

\* ------------------------------------------------ acquiring the frame, C10

\* The acquisition of the current frame has just returned or failed.
AcquireOver == fpc \in {"acquired", "panic"}

\* C10: the first acquire result decides what get_current_texture does: on
\* success the image is returned with no further call; on Timeout exactly one
\* further acquire follows and the surface is not reconfigured; on Outdated,
\* Lost or OutOfMemory the surface is configured once with the stored
\* configuration and then exactly one further acquire follows.
C10_AcquireByKind ==
    AcquireOver =>
        LET first == acquire_log[1]
        IN /\ first.op = "get_current_texture"
           /\ first.result = "Ok" =>
                 /\ Len(acquire_log) = 1
                 /\ fpc = "acquired"
                 /\ output # 0
           /\ first.result = "Timeout" =>
                 /\ Len(acquire_log) = 2
                 /\ acquire_log[2].op = "get_current_texture"
           /\ first.result \in {"Outdated", "Lost", "OutOfMemory"} =>
                 /\ Len(acquire_log) = 3
                 /\ acquire_log[2] = [op |-> "configure", result |-> "-",
                                      config |-> config]
                 /\ acquire_log[3].op = "get_current_texture"

C10_Witness ==
    /\ fpc = "acquired"
    /\ Len(acquire_log) = 3
    /\ acquire_log[1].result = "OutOfMemory"
    /\ acquire_log[2].op = "configure"
    /\ acquire_log[3].result = "Ok"

C10_WitnessTimeout ==
    /\ fpc = "acquired"
    /\ Len(acquire_log) = 2
    /\ acquire_log[1].result = "Timeout"

Attempts == SelectSeq(acquire_log, LAMBDA e : e.op = "get_current_texture")
Reconfigurations == SelectSeq(acquire_log, LAMBDA e : e.op = "configure")

\* C11: one call of get_current_texture makes at most two acquire attempts
\* and at most one reconfiguration; a second attempt that fails, with an error
\* of any kind, is fatal; once two attempts are made the call is over (it does
\* not loop), and the frame goes on only with an image.
C11_AtMostTwoAttempts ==
    /\ Len(Attempts) <= 2
    /\ Len(Reconfigurations) <= 1
    /\ (Len(Attempts) = 2 /\ Attempts[2].result # "Ok") => fpc = "panic"
    /\ Len(Attempts) = 2 => fpc \notin {"render", "reconfigure", "retry"}
    /\ fpc \in {"acquired", "recorded", "submitted"} =>
          /\ output # 0
          /\ Attempts[Len(Attempts)].result = "Ok"

\* A Timeout followed by an Outdated: the second error is of a kind that is
\* recoverable on a first attempt, and it is fatal.
C11_Witness ==
    /\ fpc = "panic"
    /\ Len(acquire_log) = 2
    /\ acquire_log[1].result = "Timeout"
    /\ acquire_log[2].result = "Outdated"

\* A reconfiguration followed by a failed second attempt.
C11_WitnessReconfigured ==
    /\ fpc = "panic"
    /\ Len(Reconfigurations) = 1
    /\ Attempts[2].result = "Timeout"

\* C13: resize is idempotent: after a resize to W x H with W, H >= 1 the
\* stored size and the depth texture are W x H and the projection has the
\* aspect W / H, whatever the state before; a second resize to the same size
\* leaves all three as the first one made them.
C13_ResizeIdempotent ==
    (last_event = "Resized" /\ new_size[1] >= 1 /\ new_size[2] >= 1) =>
        /\ config.width = new_size[1] /\ config.height = new_size[2]
        /\ depth_texture.width = new_size[1]
        /\ depth_texture.height = new_size[2]
        /\ uniforms.projection[1] * new_size[2] = uniforms.projection[2] * new_size[1]
        /\ repeated => Snapshot(config, depth_texture, uniforms) = pre_resize

\* Two resizes to 1 x 2 in a row.
C13_Witness ==
    /\ last_event = "Resized"
    /\ repeated
    /\ new_size = <<1, 2>>
    /\ config = [width |-> 1, height |-> 2]

\* A resize to 2 x 1 from a different size.
C13_WitnessChanged ==
    /\ last_event = "Resized"
    /\ ~repeated
    /\ new_size = <<2, 1>>
    /\ pre_resize.config = [width |-> 1, height |-> 2]

Rendering == fpc \in {"render", "reconfigure", "retry", "acquired", "recorded",
                      "submitted"}

\* C14: wherever a frame is rendered, after construction and any resize
\* events (zero-sized ones included), the depth texture has the width and
\* height of the current surface configuration.
C14_DepthMatchesConfig ==
    Rendering =>
        /\ depth_texture.width = config.width
        /\ depth_texture.height = config.height

\* A frame drawn after a resize to 2 x 1 and then a zero-sized resize.
C14_Witness ==
    /\ fpc = "recorded"
    /\ new_size = <<0, 1>>
    /\ pre_resize.config = [width |-> 2, height |-> 1]
    /\ frames = 1

\* C15: no acquire happens while the stored configuration differs from the
\* one the surface was last configured with: both attempts of an acquisition
\* start from a surface configured with the stored configuration.
C15_ConfiguredBeforeAcquire ==
    fpc \in {"render", "retry"} => surface_config = config

\* An acquisition about to start after a resize from 1 x 2 to 2 x 1.
C15_Witness ==
    /\ fpc = "render"
    /\ new_size = <<2, 1>>
    /\ pre_resize.config = [width |-> 1, height |-> 2]
    /\ config = [width |-> 2, height |-> 1]

IsPrefix(s, t) == Len(s) <= Len(t) /\ s = SubSeq(t, 1, Len(s))

\* C16: every frame tick runs its phases in the order Acquiring, Updating,
\* Recording, Submitting, Presented: the image is acquired before the time
\* uniform is advanced and uploaded.
C16_PhaseOrder ==
    IsPrefix(frame_log, <<"acquire", "update", "record", "submit", "present">>)

\* C18: at every draw call the device-side uniform buffer holds the current
\* host uniforms: the time written this frame and the projection of the last
\* resize.
C18_UniformsUploadedAtDraw ==
    fpc \in {"acquired", "recorded"} => uniform_buffer = uniforms

\* A draw in the second frame, after a resize from 1 x 2 to 2 x 1.
C18_Witness ==
    /\ fpc = "recorded"
    /\ frames = 1
    /\ uniforms.time >= 1
    /\ new_size = <<2, 1>>
    /\ pre_resize.projection = <<1, 2>>
    /\ uniforms.projection = <<2, 1>>

\* ------------------------------------------------ WgpuContext, C12, C20

ZeroSized == context_last.width = 0 \/ context_last.height = 0

\* C12: a resize with a zero width or a zero height is a no-op: the stored
\* configuration is what it was before the call and no surface
\* reconfiguration is attempted.
C12_ZeroResizeNoOp ==
    (context_last.op = "resize" /\ ZeroSized) =>
        /\ context_config = context_last.before
        /\ context_last.calls = <<>>

SrgbPositions == {i \in 1..Len(formats) : is_srgb(formats[i])}

\* C20: for every non-empty list of surface formats the format configured at
\* startup is the first sRGB format of the list, in list order, when there is
\* one, and the first format of the list otherwise.
C20_FirstSrgbFormat ==
    cpc # "start" =>
        /\ context_surface.format = context_config.format
        /\ IF SrgbPositions = {}
           THEN context_config.format = formats[1]
           ELSE \E i \in SrgbPositions :
                   /\ \A j \in SrgbPositions : i <= j
                   /\ context_config.format = formats[i]

\* Two sRGB formats behind a non-sRGB one: the earlier of the two is taken.
C20_Witness ==
    /\ cpc = "ready"
    /\ formats = <<"Rgba8Unorm", "Rgba8UnormSrgb", "Bgra8UnormSrgb">>
    /\ context_surface.format = "Rgba8UnormSrgb"

\* No sRGB format: the first of the list is taken.
C20_WitnessNoSrgb ==
    /\ cpc = "ready"
    /\ formats = <<"Rgba8Unorm", "Bgra8Unorm">>
    /\ context_config.format = "Rgba8Unorm"

\* ------------------------------------------------ DataBuffer, C17, C19

from_le_bytes(b) == b[1] + 256 * b[2] + 65536 * b[3] + 16777216 * b[4]

\* The words a device buffer holds, read back four bytes at a time.
RECURSIVE DeviceWords(_)
DeviceWords(bytes) ==
    IF Len(bytes) < 4 THEN <<>>
    ELSE <<from_le_bytes(SubSeq(bytes, 1, 4))>>
             \o DeviceWords(SubSeq(bytes, 5, Len(bytes)))

C19_FatalBeforeAnyBuffer ==
    /\ dpc = "panic" =>
          /\ align % 4 # 0
          /\ ~device_buffer.created
          /\ buffer_writes = 0
    /\ dpc = "live" => align % 4 = 0
    /\ (ctor # "none" /\ align % 4 = 0) => dpc = "live"

\* C19, amended: the fatal error is raised before the constructor creates or
\* writes any device buffer; the buffer UninitBuffer::initialize is given was
\* created by UninitBuffer::new before, and is left unwritten.
C19_FatalBeforeCreateOrWrite ==
    /\ dpc = "panic" =>
          /\ align % 4 # 0
          /\ buffer_writes = 0
          /\ ctor \in {"new", "from_slice"} => ~device_buffer.created
          /\ ctor = "initialize" =>
                /\ device_buffer.created
                /\ \A i \in 1..Len(device_buffer.contents) :
                      device_buffer.contents[i] = 0
    /\ dpc = "live" => align % 4 = 0
    /\ (ctor # "none" /\ align % 4 = 0) => dpc = "live"

\* DataBuffer::new for a type of alignment 2.
C19_Witness ==
    /\ dpc = "panic"
    /\ ctor = "new"
    /\ align = 2

\* UninitBuffer::initialize for a type of alignment 1.
C19_WitnessInitialize ==
    /\ dpc = "panic"
    /\ ctor = "initialize"
    /\ align = 1

\* from_slice for a type of alignment 8.
C19_WitnessSucceeds ==
    /\ dpc = "live"
    /\ ctor = "from_slice"
    /\ align = 8

\* ------------------------------------------------ generate_mipmaps, C21, C22

CeilDiv8(n) == IF n % 8 = 0 THEN n \div 8 ELSE (n \div 8) + 1

\* C21: the dispatch that writes mip level L uses ceil(width_L / 8) x
\* ceil(height_L / 8) x 1 workgroups, width_L and height_L being the
\* dimensions of level L.
C21_WorkgroupsOfLevel ==
    \A L \in 1..Len(dispatches) :
        /\ dispatches[L].workgroup_count_x = CeilDiv8(mip_sizes[L + 1].width)
        /\ dispatches[L].workgroup_count_y = CeilDiv8(mip_sizes[L + 1].height)
        /\ dispatches[L].workgroup_count_z = 1

BindGroupsComplete == mip_views # <<>> /\ mpc \in {"compute_pass", "done"}

\* C22: there is exactly one bind group per level L in 1..mip_level_count-1,
\* with the view of level L-1 at slot 0 (sampled) and the view of level L at
\* slot 1 (write-only storage); all of them exist before the compute pass
\* begins, and the L-th dispatch uses the bind group of level L.
C22_BindGroupPerLevel ==
    /\ MipBindGroupLayout[1].binding = 0 /\ MipBindGroupLayout[1].access = "Sampled"
    /\ MipBindGroupLayout[2].binding = 1 /\ MipBindGroupLayout[2].access = "WriteOnly"
    /\ \A L \in 1..Len(bind_groups) :
          /\ bind_groups[L].binding0.base_mip_level = L - 1
          /\ bind_groups[L].binding1.base_mip_level = L
    /\ BindGroupsComplete => Len(bind_groups) = texture.mip_level_count - 1
    /\ dispatches # <<>> => BindGroupsComplete
    /\ Len(dispatches) <= Len(bind_groups)
    /\ \A L \in 1..Len(dispatches) : dispatches[L].bind_group = bind_groups[L]
    /\ (submitted /\ mip_views # <<>>) =>
          Len(dispatches) = texture.mip_level_count - 1

\* A 4 x 3 texture: three levels, two bind groups, two dispatches, submitted.
C22_Witness ==
    /\ submitted
    /\ image.width = 4 /\ image.height = 3
    /\ Len(bind_groups) = 2
    /\ Len(dispatches) = 2
    /\ dispatches[2].bind_group.binding1.base_mip_level = 2

\* ------------------------------------------------ write_mipmaps, C27

\* C27: in write_mipmaps, for every image size and every level L >= 1 the
\* four source byte ranges lie inside the previous level's pixel buffer: no
\* slice is out of range, also for odd and non-square sizes.
C27_SlicesInRange ==
    /\ mpc # "panic"
    /\ (mpc = "write_mipmaps" /\ level > 0 /\ level < texture.mip_level_count) =>
          MipLevelInRange(previous_level_pixels, mip_level_size)

\* A 3 x 4 image: levels 1 (1 x 2) and 2 (0 x 1) were computed.
C27_Witness ==
    /\ mpc = "done"
    /\ ~submitted
    /\ image.width = 3 /\ image.height = 4
    /\ Len(writes) = 3

\* The 16 x 9 image: five levels.
C27_WitnessLarge ==
    /\ mpc = "done"
    /\ ~submitted
    /\ image.width = 16 /\ image.height = 9
    /\ Len(writes) = 5

\* ------------------------------------------------ the frame's commands, C25, C26

Positions(op) == {k \in 1..Len(commands) : commands[k].op = op}

\* C25: each frame records exactly one main render pass with exactly one
\* draw call, of the vertices 0..(number of loaded vertices) and one
\* instance; the pipeline, the vertex buffer and the bind group are bound
\* inside the pass before the draw.
C25_OnePassOneDraw ==
    fpc \in {"recorded", "submitted"} =>
        /\ Cardinality(Positions("begin_render_pass")) = 1
        /\ Cardinality(Positions("end_render_pass")) = 1
        /\ Cardinality(Positions("draw")) = 1
        /\ \A d \in Positions("draw") :
              /\ commands[d].first = 0
              /\ commands[d].count = vertices
              /\ commands[d].instances = 1
              /\ \A e \in Positions("end_render_pass") : d < e
              /\ \A op \in {"set_pipeline", "set_vertex_buffer", "set_bind_group"} :
                    \E k \in Positions(op) :
                       /\ k < d
                       /\ \A b \in Positions("begin_render_pass") : b < k

\* The second frame of a six-vertex mesh is recorded.
C25_Witness ==
    /\ fpc = "recorded"
    /\ frames = 1
    /\ vertices = 6
    /\ Len(commands) = 6

FrameSteps == SelectSeq(frame_log, LAMBDA step : step # "update")

\* C26: every acquired image is presented exactly once, after the frame's
\* one submission; a frame's acquire, submit and present precede the next
\* frame's acquire, so at most one image is outstanding, and no resize
\* happens between a frame's acquire and its present.
C26_OneImageInFlight ==
    /\ output # 0 <=> fpc \in {"acquired", "recorded", "submitted"}
    /\ output # 0 => output = frames + 1
    /\ output # 0 => last_event = "AboutToWait"
    /\ IsPrefix(FrameSteps, <<"acquire", "record", "submit", "present">>)
    /\ fpc = "submitted" => FrameSteps = <<"acquire", "record", "submit">>
    /\ (fpc = "idle" /\ frame_log # <<>>) =>
          FrameSteps = <<"acquire", "record", "submit", "present">>

\* Two frames presented, with a resize to 2 x 1 handled at some point.
C26_Witness ==
    /\ fpc = "idle"
    /\ frames = 2
    /\ new_size = <<2, 1>>
    /\ FrameSteps = <<"acquire", "record", "submit", "present">>

\* ------------------------------------------------ save_texture, C23, C28

\* C23: the mapped bytes are read only after the copy was submitted, the map
\* request issued and its callback reported success; a mapping failure is
\* fatal and no bytes are read.
C23_ReadAfterMapped ==
    /\ mapped_pixels # <<>> =>
          /\ copy_layout # NoCopy
          /\ map_state = "Ok"
          /\ mapped_pixels = pixel_buffer
    /\ map_state # "unrequested" => copy_layout # NoCopy
    /\ spc \in {"mapped", "saved"} => map_state = "Ok"
    /\ (spc = "panic" \/ map_state = "Err") => mapped_pixels = <<>> /\ saved = <<>>
    /\ (map_state = "Err" /\ spc # "receive") => spc = "panic"

\* The mapping failed and the call was fatal.
C23_Witness ==
    /\ spc = "panic"
    /\ map_state = "Err"
    /\ copy_layout.width = 64

\* The mapping succeeded and the bytes were read.
C23_WitnessRead ==
    /\ spc = "saved"
    /\ map_state = "Ok"
    /\ Len(mapped_pixels) = 128

\* C28: the row stride with which the read-back bytes are read as an image
\* (4 * width) equals the bytes-per-row of the copy, so that pixel (x, y) of
\* the saved image is pixel (x, y) of the copied level.
C28_SameRowStride ==
    /\ copy_layout # NoCopy => copy_layout.bytes_per_row = 4 * copy_layout.width
    /\ spc = "saved" =>
          \A y \in 1..copy_layout.height : \A x \in 1..copy_layout.width :
             saved[y][x] = <<x - 1, y - 1>>

\* ------------------------------------------------ EguiRenderer::draw, C29

GuiCalls(op) == {k \in 1..Len(gui_log) : gui_log[k].op = op}
GuiIds(op) == SelectSeq(gui_log, LAMBDA c : c.op = op)

\* C29: every texture update of textures_delta.set and the buffer update are
\* made before the overlay render pass begins; every texture of
\* textures_delta.free is freed only after the pass has ended; the populate
\* callback runs exactly once per draw, before tessellation.
C29_OverlayOrder ==
    /\ \A u \in GuiCalls("update_texture") \cup GuiCalls("update_buffers") :
          \A b \in GuiCalls("begin_render_pass") : u < b
    /\ GuiCalls("begin_render_pass") # {} =>
          /\ Cardinality(GuiCalls("update_buffers")) = 1
          /\ [k \in 1..Len(GuiIds("update_texture")) |->
                 GuiIds("update_texture")[k].id] = textures_delta.set
    /\ \A f \in GuiCalls("free_texture") :
          \E e \in GuiCalls("end_render_pass") : e < f
    /\ gpc = "done" =>
          /\ Cardinality(GuiCalls("end_render_pass")) = 1
          /\ [k \in 1..Len(GuiIds("free_texture")) |->
                 GuiIds("free_texture")[k].id] = textures_delta.free
    /\ Cardinality(GuiCalls("run_ui")) = (IF gpc = "start" THEN 0 ELSE 1)
    /\ \A t \in GuiCalls("tessellate") : \E r \in GuiCalls("run_ui") : r < t

\* A draw that set textures 1 and 2 and freed texture 2 and 1.
C29_Witness ==
    /\ gpc = "done"
    /\ textures_delta = [set |-> <<1, 2>>, free |-> <<2, 1>>]
    /\ Cardinality(GuiCalls("free_texture")) = 2

\* ------------------------------------------------ load_geometry, C30

\* The number of vertices of the models before the k-th.
RECURSIVE VerticesBefore(_)
VerticesBefore(k) ==
    IF k <= 1 THEN 0 ELSE VerticesBefore(k - 1) + models[k - 1].vertex_count

\* C30: every returned index refers to a vertex of the model the index came
\* from: the indices of the k-th model are offset by the number of vertices
\* of the models before it, and every index is below the number of returned
\* vertices.
C30_IndicesOfOwnModel ==
    lpc = "done" =>
        \A n \in 1..Len(indices) :
            /\ indices[n] < Len(loaded_vertices)
            /\ indices[n] >= VerticesBefore(index_model[n])
            /\ loaded_vertices[indices[n] + 1].model = index_model[n]

====
